---- MODULE Spec2Model ----
(***************************************************************************)
(* A model of the inference worker (src/inference/engine.rs) and of the    *)
(* agent loop's permission path (src/ui/chat/mod.rs) of clawRS.            *)
(*                                                                         *)
(* u32 values are held in two's-complement coding: a value v below 2^31   *)
(* is the integer v, a value v from 2^31 up is the integer v - 2^32 (so   *)
(* -1 is 4294967295).  The arithmetic below is exact 32-bit arithmetic on  *)
(* that coding.                                                            *)
(***************************************************************************)
EXTENDS Integers, Sequences, FiniteSets, TLC

\* ------------------------------------------------------------------ bounds
\* longest command queue explored
MaxQueue == 2
\* commands submitted to the worker in one run
MaxCmds == 4
\* sampled tokens explored per generation
MaxGen == 2
\* iterations of the agent loop allowed in a run (max_iterations)
MaxIterations == 3
\* calls of handle_send in the runs of the chat view
MaxRuns == 2
\* characters of a text given to the sampling loop
MaxChars == 2
\* calls of get_tool_permission on one name
MaxCalls == 2
\* messages of a conversation that is compacted
MaxMsgs == 7

\* ------------------------------------------------------- program constants
\* the largest integer of the coding, 2^31 - 1
I32Max == (2^30 - 1) + 2^30
MinGen == 256
MinAvailable == 64
PermissionTimeoutSecs == 120

\* ------------------------------------------------------- u32 arithmetic
\* unsigned a < b
LtU(a, b) == IF (a < 0) = (b < 0) THEN a < b ELSE b < 0
LeU(a, b) == a = b \/ LtU(a, b)
MinU(a, b) == IF LeU(a, b) THEN a ELSE b
MaxU(a, b) == IF LeU(a, b) THEN b ELSE a

\* a + b does not fit 32 bits
AddOverflows(a, b) ==
    IF a < 0 /\ b < 0 THEN TRUE
    ELSE IF a >= 0 /\ b >= 0 THEN FALSE
    ELSE a + b >= 0

\* a + b modulo 2^32
AddWrap(a, b) ==
    IF a >= 0 /\ b >= 0
      THEN IF a > I32Max - b
             THEN ((a - I32Max) - 1) + ((b - I32Max) - 1)
             ELSE a + b
    ELSE IF a < 0 /\ b < 0
      THEN IF a >= ((0 - I32Max) - 1) - b
             THEN a + b
             ELSE ((a + I32Max) + 1) + ((b + I32Max) + 1)
    ELSE a + b

\* a.saturating_sub(b), for a and b below 2^31
SatSub(a, b) == IF a <= b THEN 0 ELSE a - b

\* ceil(a / b) for b > 0: the number of chunks of slice::chunks(b)
CeilDiv(a, b) == (a + b - 1) \div b

\* ------------------------------------------------------- context sizing
StandardSizes == <<2048, 4096, 8192, 16384, 32768, 65536, 131072>>

RECURSIVE PickFrom(_, _, _)
PickFrom(i, needed, max) ==
    IF i > Len(StandardSizes) THEN MinU(needed, max)
    ELSE IF LeU(needed, StandardSizes[i]) /\ LeU(StandardSizes[i], max)
           THEN StandardSizes[i]
           ELSE PickFrom(i + 1, needed, max)

pick_context_size(needed, max) == PickFrom(1, needed, max)

calculate_optimal_batch(n_ctx, prompt_len) ==
    LET base == IF LtU(prompt_len, 512) THEN 2048
                ELSE IF LtU(prompt_len, 2048) THEN 1024
                ELSE IF LtU(prompt_len, 4096) THEN 512
                ELSE 256
    IN  MinU(base, n_ctx)

\* run_generation_persistent, lines 559-565
EffectiveMax(max_context_size, model_max) == MinU(max_context_size, model_max)

\* the additions of lines 563-564 overflow: a panic in a build with overflow
\* checks, a wrap otherwise
SizingOverflows(prompt_len, max_tokens) ==
    AddOverflows(prompt_len, max_tokens) \/ AddOverflows(prompt_len, MinGen)

NeededCtx(prompt_len, max_tokens, effective_max) ==
    LET n1 == MinU(AddWrap(prompt_len, max_tokens), effective_max)
        n2 == MaxU(n1, AddWrap(prompt_len, MinGen))
    IN  MinU(n2, effective_max)

RequiredCtx(prompt_len, max_tokens, max_context_size, model_max) ==
    LET em == EffectiveMax(max_context_size, model_max)
    IN  pick_context_size(NeededCtx(prompt_len, max_tokens, em), em)

\* ------------------------------------------------------- UTF-8 re-assembly
\* bytes are 0..255; the length of the character a lead byte opens, 0 when
\* the byte cannot open one
Utf8CharLen(b) ==
    IF b < 128 THEN 1
    ELSE IF b >= 194 /\ b <= 223 THEN 2
    ELSE IF b >= 224 /\ b <= 239 THEN 3
    ELSE IF b >= 240 /\ b <= 244 THEN 4
    ELSE 0

IsContinuation(b) == b >= 128 /\ b <= 191

\* the second byte of a character, which must rule out overlong forms,
\* surrogates and code points past U+10FFFF
SecondByteOk(lead, b) ==
    CASE lead = 224 -> b >= 160 /\ b <= 191
      [] lead = 237 -> b >= 128 /\ b <= 159
      [] lead = 240 -> b >= 144 /\ b <= 191
      [] lead = 244 -> b >= 128 /\ b <= 143
      [] OTHER -> IsContinuation(b)

\* std::str::from_utf8(s).is_ok()
RECURSIVE from_utf8_ok(_)
from_utf8_ok(s) ==
    IF s = <<>> THEN TRUE
    ELSE LET n == Utf8CharLen(s[1])
         IN  /\ n > 0
             /\ Len(s) >= n
             /\ \A i \in 2..n : IsContinuation(s[i])
             /\ n >= 2 => SecondByteOk(s[1], s[2])
             /\ from_utf8_ok(SubSeq(s, n + 1, Len(s)))

\* a search that takes the whole buffer
ValidLenWhole(buffer, k) == k

\* the loop of emit_valid_utf8: the longest valid prefix, searched downwards
RECURSIVE ValidLen(_, _)
ValidLen(buffer, k) ==
    IF k = 0 THEN 0
    ELSE IF from_utf8_ok(SubSeq(buffer, 1, k)) THEN k
    ELSE ValidLen(buffer, k - 1)

\* emit_valid_utf8: the text sent (<<>> when nothing is sent), the buffer
\* left, and the value returned; connected tells whether the receiver lives
emit_valid_utf8(buffer, connected) ==
    IF from_utf8_ok(buffer)
      THEN IF buffer # <<>> /\ ~connected
             THEN [text |-> buffer, buffer |-> buffer, ok |-> FALSE]
             ELSE [text |-> buffer, buffer |-> <<>>, ok |-> TRUE]
      ELSE LET valid_len == ValidLen(buffer, Len(buffer))
               prefix == SubSeq(buffer, 1, valid_len)
               rest == SubSeq(buffer, valid_len + 1, Len(buffer))
           IN  IF valid_len > 0 /\ ~connected
                 THEN [text |-> prefix, buffer |-> buffer, ok |-> FALSE]
                 ELSE [text |-> prefix, buffer |-> rest, ok |-> TRUE]

\* flush_utf8_buffer: the text sent (<<>> when nothing is sent); the buffer
\* is always left empty
flush_utf8_buffer(buffer) == IF from_utf8_ok(buffer) THEN buffer ELSE <<>>

\* ------------------------------------------------------------- the state
VARIABLES
    engine,     \* LlamaEngine: its flags, its sender, the call it is in
    queue,      \* the command channel: commands sent and not yet received
    nextSeq,    \* commands submitted so far
    lastSeq,    \* submission number of the command the worker received last
    wpc,        \* where the worker thread is
    state,      \* WorkerState
    cur,        \* the locals of the GENERATE in flight
    streams,    \* per GENERATE, by submission number: its stop flag, its
                \* receiver, what was sent; forgotten when a later GENERATE
                \* is received
    drops,      \* the resources the worker's last step dropped, in order
    reuse,      \* the reuse decision the worker's last step took, if any
    build,      \* "debug": overflow checks on; "release": wrapping; "any"
                \* until the first overflow shows which
    agent,      \* the agent loop (ChatView::handle_send)
    chat,       \* the chat view: is_generating, stop_signal, the tasks that
                \* handle_send spawned and who wrote the message list
    utf8,       \* a sampling loop fed with given token bytes
    sizing,     \* a context sizing: its inputs and the size chosen
    gguf,       \* a file given to validate_gguf, and what it returned
    perm,       \* a tool name and what get_tool_permission returned for it
    compact     \* a conversation and what the compaction of it left

wvars == <<engine, queue, nextSeq, lastSeq, wpc, state, cur, streams, drops,
           reuse, build>>
pvars == <<utf8, sizing, gguf, perm, compact>>
vars == <<wvars, agent, chat, pvars>>

\* ------------------------------------------------------------- inputs
\* model files by what the header check and the runtime make of them
Files == {"missing", "badmagic", "refused", "good"}
\* validate_gguf on the file: the header check passes
HeaderValid(file) == file \in {"refused", "good"}
\* LlamaModel::load_from_file on the file succeeds
RuntimeLoads(file) == file = "good"
\* train-time context length of the model a file holds
TrainCtxOf(file) == IF file = "good" THEN 4096 ELSE 0

\* the GENERATE commands submitted: the token count the tokenizer returns
\* for the messages (tokenizes: whether it returns one), params.max_tokens
\* and params.max_context_size; -1 is 4294967295
GenInput(prompt_len, max_tokens, max_context_size, tokenizes) ==
    [prompt_len |-> prompt_len, max_tokens |-> max_tokens,
     max_context_size |-> max_context_size, tokenizes |-> tokenizes]

GenInputs ==
    { GenInput(100, 2, 4096, TRUE),    \* one chunk, context 2048, batch 2048
      GenInput(1500, 2, 4096, TRUE),   \* two chunks, context 2048, batch 1024
      GenInput(100, 0, 100, TRUE),     \* context 100, no output budget
      GenInput(100, 2, 0, TRUE),       \* max_context_size = 0
      GenInput(100, -1, 4096, TRUE),   \* prompt_len + max_tokens overflows
      GenInput(0, 2, 4096, TRUE),      \* the tokenizer returns no token
      GenInput(100, 2, 4096, FALSE) }  \* the tokenizer fails

\* bytes of one sampled token: 'A', the lead byte of a 2-byte character, a
\* continuation byte
TokenBytes == {<<65>>, <<195>>, <<169>>}

NoModel == [some |-> FALSE, n_ctx_train |-> 0]
NoCtx == [some |-> FALSE, n_ctx |-> 0, n_batch |-> 0]
NoCur == [id |-> 0, prompt_len |-> 0, batch_size |-> 0, nchunks |-> 0,
          chunk |-> 0, max_tokens |-> 0, tokens_generated |-> 0,
          hit_eos |-> FALSE, utf8_buffer |-> <<>>, n_ctx |-> 0]
NoReuse == [valid |-> FALSE, had |-> FALSE, stored_n_ctx |-> 0,
            stored_n_batch |-> 0, n_ctx |-> 0, needed_batch |-> 0,
            kept |-> FALSE, dropped_old |-> FALSE, attempts |-> 0,
            built |-> 0, after_error |-> FALSE]
NoInput == GenInput(0, 0, 0, TRUE)

Command(type, seq, id, file, input) ==
    [type |-> type, seq |-> seq, id |-> id, file |-> file, input |-> input]


\* ------------------------------------------------------------- channels
\* mpsc: send appends, recv takes the oldest
Enqueue(q, cmd) == Append(q, cmd)
NextCommandNewest(q) == q[Len(q)]
NextCommand(q) == Head(q)
Dequeue(q) == Tail(q)

\* tx.send(value) on a token channel: delivered only while the receiver lives
Send(ss, id, kind, generated, limit) ==
    [ss EXCEPT ![id].sink =
        Append(@, [kind |-> kind, generated |-> generated, limit |-> limit,
                   delivered |-> ss[id].rx])]

SendText(ss, id, text) ==
    IF text = <<>> THEN ss ELSE Send(ss, id, "Token", 0, 0)

\* mpsc::channel() and Arc::new(AtomicBool::new(false)) of a new GENERATE
Opened(ss, id) ==
    [k \in DOMAIN ss \cup {id} |->
        IF k = id THEN [stop |-> FALSE, rx |-> TRUE, sink |-> <<>>,
                        stop_in_flight |-> FALSE, sink_at_stop |-> 0]
        ELSE ss[k]]

\* the streams of GENERATEs submitted before id are finished and forgotten
Forget(ss, id) == [k \in {j \in DOMAIN ss : j >= id} |-> ss[k]]

InFlight == wpc \in {"prefill", "sample", "finish"}
WorkerRuns == wpc \in {"recv", "prefill", "sample", "finish"}
WorkerDead == wpc \in {"exited", "panicked"}

\* ------------------------------------------------------------- agent loop
\* ChatView::handle_send and the task it spawns. The text of a message is
\* kept as a tag naming which of the code's strings it is.
Msg(role, content) == [role |-> role, content |-> content]

\* msgs.last_mut() with last.content = content
SetLast(msgs, content) ==
    IF msgs = <<>> THEN msgs
    ELSE [msgs EXCEPT ![Len(msgs)] = [@ EXCEPT !.content = content]]

\* the pop of a trailing empty assistant message
PopEmptyAssistant(msgs) ==
    IF msgs # <<>> /\ msgs[Len(msgs)] = Msg("Assistant", "")
      THEN SubSeq(msgs, 1, Len(msgs) - 1)
      ELSE msgs

\* the tool calls the model may emit
ToolCall(tool, params) == [tool |-> tool, params |-> params]
ToolCalls == {ToolCall("think", "a"), ToolCall("bash", "a"),
              ToolCall("no_such_tool", "a")}
NoCall == ToolCall("none", "none")

\* app_state.agent.tool_registry
Registry == {"think", "bash"}

\* the settings read by a run
SettingsOf(tools_enabled, auto_approve_all, tool_allowlist) ==
    [tools_enabled |-> tools_enabled, auto_approve_all |-> auto_approve_all,
     tool_allowlist |-> tool_allowlist, max_iterations |-> MaxIterations]
SettingsSet == {SettingsOf(FALSE, FALSE, {}), SettingsOf(TRUE, FALSE, {}),
                SettingsOf(TRUE, TRUE, {}), SettingsOf(TRUE, FALSE, {"bash"})}

\* the time wait_for_decision may let pass in one step
Delays == {PermissionTimeoutSecs \div 2, PermissionTimeoutSecs}

\* is_internal_safe_tool
is_internal_safe_tool(tool) ==
    tool \in {"skill_create", "skill_invoke", "skill_list", "think",
              "todo_write"}

auto_approved_ignoring_allowlist(settings, tool) ==
    settings.auto_approve_all \/ is_internal_safe_tool(tool)

\* auto_approved
auto_approved(settings, tool) ==
    \/ settings.auto_approve_all
    \/ tool \in settings.tool_allowlist
    \/ is_internal_safe_tool(tool)

approved_unless_denied(permission_result, decision) ==
    CASE permission_result = "Approved" -> TRUE
      [] permission_result = "Pending" -> decision # "Denied"
      [] OTHER -> FALSE

\* the match on permission_result; decision "None" is wait_for_decision
\* returning None
approved(permission_result, decision) ==
    CASE permission_result = "Approved" -> TRUE
      [] permission_result = "Pending" -> decision = "Approved"
      [] OTHER -> FALSE

\* the locals of the permission path go out of scope with the iteration
EndOfCall(a) ==
    [a EXCEPT !.call = NoCall, !.requested = FALSE,
              !.permission_result = "none", !.decision = "none",
              !.waited = 0]

\* ToolHistoryEntry
ToolHistoryEntry(call, result, error, duration_ms) ==
    [tool_name |-> call.tool, params |-> call.params, result |-> result,
     error |-> error, duration_ms |-> duration_ms]

\* a history that keeps one entry per call: a repeat replaces the last entry
PushHistoryDeduplicated(h, e) ==
    IF h # <<>> /\ h[Len(h)].tool_name = e.tool_name
                /\ h[Len(h)].params = e.params
      THEN [h EXCEPT ![Len(h)] = e]
      ELSE Append(h, e)

\* agent_ctx.tool_history.push
PushHistory(h, e) == Append(h, e)

\* AgentContext::is_stuck: three consecutive errors, or the last three tool
\* invocations are the same call
is_stuck(a) ==
    \/ a.consecutive_errors >= 3
    \/ LET h == a.tool_history
           n == Len(h)
       IN  /\ n >= 3
           /\ \A i \in (n - 2)..n :
                 /\ h[i].tool_name = h[n].tool_name
                 /\ h[i].params = h[n].params

\* the proactive compression of the conversation
ProactivelyCompressed(msgs) ==
    LET n == Len(msgs)
        kept == IF n > 6
                  THEN <<Msg("System", "compressed")>> \o SubSeq(msgs, n - 3, n)
                  ELSE msgs
    IN  Append(kept, Msg("System", "proactive"))

\* the conversation after the model's summary replaced it
Summarised(msgs) ==
    LET last == msgs[Len(msgs)]
    IN  <<Msg("System", "summary")>>
          \o (IF last.content # "" THEN <<last>> ELSE <<>>)
          \o <<Msg("Assistant", "")>>

\* the messages of a tool success with the result ahead of the summary
ToolSuccessMessagesResultFirst(msgs) ==
    msgs \o <<Msg("System", "tool_result"), Msg("Assistant", "tool_ok"),
              Msg("Assistant", "")>>

\* the three pushes of a tool success: the summary shown to the user, the
\* formatted result for the model, the message the next generation fills
ToolSuccessMessages(msgs) ==
    msgs \o <<Msg("Assistant", "tool_ok"), Msg("System", "tool_result"),
              Msg("Assistant", "")>>

\* the loop is left: pc "exit", with the branch that left it
Break(a, reason) == [a EXCEPT !.pc = "exit", !.reason = reason]

\* the pruning of the post-truncation compression, without its guard
AfterTruncatedUnguarded(a, small) ==
    LET b == [a EXCEPT !.compression_count = @ + 1,
                       !.compactions = Append(@, "truncation")]
    IN  IF small /\ a.iteration < 3 THEN [b EXCEPT !.pc = "loop"]
        ELSE IF small THEN Break(b, "pruned")
        ELSE IF Len(a.messages) > 2
          THEN [b EXCEPT !.pc = "loop",
                         !.messages = Summarised(SetLast(@, "text"))]
        ELSE Break(b, "cannot_compress")

\* the loop body from a Truncated stream on; small: pruning brought the
\* conversation under 12000 characters. compactions lists the compactions
\* that were carried out
AfterTruncated(a, small) ==
    IF a.compression_count >= 2
      THEN Break(a, "compaction_limit")
    ELSE LET b == [a EXCEPT !.compression_count = @ + 1,
                            !.compactions = Append(@, "truncation")]
         IN  IF small /\ a.iteration < 3 THEN [b EXCEPT !.pc = "loop"]
             ELSE IF small THEN Break(b, "pruned")
             ELSE IF Len(a.messages) > 2
               THEN [b EXCEPT !.pc = "loop",
                              !.messages = Summarised(SetLast(@, "text"))]
             ELSE Break(b, "cannot_compress")

\* the loop body from a stream that ended with Error on
AfterStreamError(a) ==
    IF a.consecutive_errors < 3
      THEN [a EXCEPT !.pc = "loop",
                     !.messages = @ \o <<Msg("System", "retry"),
                                         Msg("Assistant", "")>>]
      ELSE Break(a, "stream_errors")

\* the loop body from a successful generation to the permission request;
\* extracted is what extract_tool_call and the malformed-JSON test find in
\* the text
AfterGeneration(a, extracted) ==
    LET b == [a EXCEPT !.consecutive_errors = 0]
    IN  IF ~a.settings.tools_enabled THEN Break(b, "final")
        ELSE IF extracted.kind = "none"
          THEN [Break(b, "final") EXCEPT !.state = "Completed"]
        ELSE IF extracted.kind = "malformed"
          THEN IF b.consecutive_errors < 2
                 THEN [b EXCEPT !.pc = "loop", !.state = "Acting",
                                !.consecutive_errors = @ + 1,
                                !.messages = @ \o <<Msg("System", "format"),
                                                    Msg("Assistant", "")>>]
                 ELSE [Break(b, "final") EXCEPT !.state = "Completed"]
        ELSE LET c == [b EXCEPT !.state = "Acting", !.call = extracted.call,
                                !.messages = SetLast(@, "using_tool"),
                                !.waited = 0,
                                !.permission_result = "none",
                                !.decision = "none",
                                !.requested = FALSE]
             IN  IF auto_approved(a.settings, extracted.call.tool)
                   THEN [c EXCEPT !.pc = "resolved",
                                  !.permission_result = "Approved"]
                   ELSE [c EXCEPT !.pc = "request"]

AgentIdle ==
    [pc |-> "idle", settings |-> SettingsOf(FALSE, FALSE, {}),
     state |-> "Idle", iteration |-> 0, consecutive_errors |-> 0,
     compression_count |-> 0, compactions |-> <<>>, reason |-> "none",
     stop_signal |-> FALSE, elapsed |-> 0,
     tool_history |-> <<>>, messages |-> <<>>, call |-> NoCall,
     requested |-> FALSE, permission_result |-> "none", decision |-> "none",
     waited |-> 0, executions |-> 0]

\* the chat view before the first send; tasks: per spawned task its position,
\* its iteration and whether stop was pressed during it; writes: who appended to the message list, in order
\* (0: handle_send itself, t: the task t)
ChatIdle ==
    [is_generating |-> FALSE, stop_signal |-> FALSE, tasks |-> <<>>,
     writes |-> <<>>]

\* no sampling loop, sizing or validation under way
Utf8Idle == [S |-> <<>>, boundaries |-> {0}, cuts |-> {}, chunks |-> <<>>,
             buffer |-> <<>>, emitted |-> <<>>, done |-> TRUE]
SizingIdle == [phase |-> "none", prompt_len |-> 0, max_tokens |-> 0,
               max_context_size |-> 0, model_max |-> 0, n_ctx |-> 0]
PermIdle == [tool_name |-> "", levels |-> <<>>]
CompactIdle ==
    [phase |-> "none", before |-> <<>>, pruned |-> <<>>, msgs |-> <<>>,
     repeat |-> FALSE, summary |-> "none"]
GgufIdle == [phase |-> "none", bytes |-> <<>>,
             written |-> [magic |-> 0, version |-> 0,
                          tensor_count |-> [lo |-> 0, hi |-> 0],
                          metadata_kv_count |-> [lo |-> 0, hi |-> 0]],
             result |-> [kind |-> "none", arg |-> 0, version |-> 0,
                         tensor_count |-> [lo |-> 0, hi |-> 0],
                         metadata_kv_count |-> [lo |-> 0, hi |-> 0]]]

\* ------------------------------------------------------------- the engine
InitProgram ==
    /\ engine = [initialized |-> FALSE, command_tx |-> FALSE,
                 model_loaded |-> FALSE, pc |-> "ready", lastLoad |-> "none",
                 lastFile |-> "none", lastGen |-> "none",
                 loadReply |-> "none"]
    /\ queue = <<>>
    /\ nextSeq = 0
    /\ lastSeq = 0
    /\ wpc = "none"
    /\ state = [backend |-> FALSE, model |-> NoModel, ctx |-> NoCtx,
                ctx_n_ctx |-> 0, ctx_n_batch |-> 0]
    /\ cur = NoCur
    /\ streams = [k \in {} |-> 0]
    /\ drops = <<>>
    /\ reuse = NoReuse
    /\ build = "any"
    /\ agent = AgentIdle
    /\ chat = ChatIdle

Init ==
    /\ InitProgram
    /\ utf8 = Utf8Idle /\ sizing = SizingIdle /\ gguf = GgufIdle /\ perm = PermIdle
    /\ compact = CompactIdle

CanSubmit == nextSeq < MaxCmds /\ Len(queue) < MaxQueue

\* LlamaEngine::init: spawns the worker and sends INIT
EngineInit ==
    /\ engine.pc = "ready"
    /\ ~engine.initialized
    /\ CanSubmit
    /\ wpc' = "recv"
    /\ nextSeq' = nextSeq + 1
    /\ queue' = Enqueue(queue, Command("Init", nextSeq + 1, 0, "none", NoInput))
    /\ engine' = [engine EXCEPT !.initialized = TRUE, !.command_tx = TRUE,
                                !.lastLoad = "none", !.lastFile = "none",
                                !.lastGen = "none"]
    /\ UNCHANGED <<lastSeq, state, cur, streams, drops, reuse, build,
                   agent, chat, pvars>>

\* LlamaEngine::load_model up to the blocking recv
EngineLoad(file) ==
    /\ engine.pc = "ready"
    /\ IF ~engine.command_tx
         THEN /\ engine' = [engine EXCEPT !.lastLoad = "BackendNotInitialized",
                                          !.lastFile = file,
                                          !.lastGen = "none"]
              /\ UNCHANGED <<queue, nextSeq>>
       ELSE IF ~HeaderValid(file)
         THEN /\ engine' = [engine EXCEPT !.lastLoad = "ModelValidation",
                                          !.lastFile = file,
                                          !.lastGen = "none"]
              /\ UNCHANGED <<queue, nextSeq>>
       ELSE IF WorkerDead
         THEN /\ engine' = [engine EXCEPT !.lastLoad = "WorkerError",
                                          !.lastFile = file,
                                          !.lastGen = "none"]
              /\ UNCHANGED <<queue, nextSeq>>
       ELSE /\ CanSubmit
            /\ nextSeq' = nextSeq + 1
            /\ queue' = Enqueue(queue,
                           Command("LoadModel", nextSeq + 1, 0, file, NoInput))
            /\ engine' = [engine EXCEPT !.pc = "waitLoad", !.lastLoad = "none",
                                        !.lastFile = file,
                                        !.lastGen = "none",
                                        !.loadReply = "none"]
    /\ UNCHANGED <<lastSeq, wpc, state, cur, streams, drops, reuse, build,
                   agent, chat, pvars>>

\* LlamaEngine::load_model from the reply on
EngineLoadReturn ==
    /\ engine.pc = "waitLoad"
    /\ engine.loadReply # "none"
    /\ engine' = [engine EXCEPT
          !.pc = "ready",
          !.loadReply = "none",
          !.lastLoad = IF engine.loadReply = "disconnected" THEN "WorkerError"
                       ELSE engine.loadReply,
          !.model_loaded = IF engine.loadReply = "ok" THEN TRUE ELSE @]
    /\ UNCHANGED <<queue, nextSeq, lastSeq, wpc, state, cur, streams, drops,
                   reuse, build, agent, chat, pvars>>

\* LlamaEngine::unload_model
EngineUnload ==
    /\ engine.pc = "ready"
    /\ IF ~engine.command_tx \/ WorkerDead
         THEN UNCHANGED <<queue, nextSeq>>
         ELSE /\ CanSubmit
              /\ nextSeq' = nextSeq + 1
              /\ queue' = Enqueue(queue,
                     Command("UnloadModel", nextSeq + 1, 0, "none", NoInput))
    /\ engine' = [engine EXCEPT !.model_loaded = FALSE, !.lastLoad = "none",
                                !.lastFile = "none", !.lastGen = "none"]
    /\ UNCHANGED <<lastSeq, wpc, state, cur, streams, drops, reuse, build,
                   agent, chat, pvars>>

\* the checks of a generate that looks at the model flag first
generate_checks_model_first(eng) ==
    IF ~eng.model_loaded THEN "NoModelLoaded"
    ELSE IF ~eng.command_tx THEN "BackendNotInitialized"
    ELSE "Ok"

\* the checks of generate_stream_messages before it sends the command
generate_checks(eng) ==
    IF ~eng.command_tx THEN "BackendNotInitialized"
    ELSE IF ~eng.model_loaded THEN "NoModelLoaded"
    ELSE "Ok"

\* LlamaEngine::generate_stream_messages
EngineGenerate(input) ==
    /\ engine.pc = "ready"
    /\ IF generate_checks(engine) = "BackendNotInitialized"
         THEN /\ engine' = [engine EXCEPT !.lastLoad = "none",
                                          !.lastFile = "none",
                                          !.lastGen = "BackendNotInitialized"]
              /\ UNCHANGED <<queue, nextSeq, streams>>
       ELSE IF generate_checks(engine) = "NoModelLoaded"
         THEN /\ engine' = [engine EXCEPT !.lastLoad = "none",
                                          !.lastFile = "none",
                                          !.lastGen = "NoModelLoaded"]
              /\ UNCHANGED <<queue, nextSeq, streams>>
       ELSE IF WorkerDead
         THEN /\ engine' = [engine EXCEPT !.lastLoad = "none",
                                          !.lastFile = "none",
                                          !.lastGen = "WorkerError"]
              /\ UNCHANGED <<queue, nextSeq, streams>>
       ELSE /\ CanSubmit
            /\ nextSeq' = nextSeq + 1
            /\ streams' = Opened(streams, nextSeq + 1)
            /\ queue' = Enqueue(queue,
                  Command("Generate", nextSeq + 1, nextSeq + 1, "none", input))
            /\ engine' = [engine EXCEPT !.lastLoad = "none",
                                        !.lastFile = "none", !.lastGen = "Ok"]
    /\ UNCHANGED <<lastSeq, wpc, state, cur, drops, reuse, build,
                   agent, chat, pvars>>

\* Drop for LlamaEngine: sends SHUTDOWN and joins the worker
EngineDrop ==
    /\ engine.pc = "ready"
    /\ engine.command_tx
    /\ IF WorkerDead
         THEN UNCHANGED <<queue, nextSeq>>
         ELSE /\ Len(queue) < MaxQueue
              /\ nextSeq' = nextSeq + 1
              /\ queue' = Enqueue(queue,
                     Command("Shutdown", nextSeq + 1, 0, "none", NoInput))
    /\ engine' = [engine EXCEPT !.pc = "dropped", !.command_tx = FALSE]
    /\ UNCHANGED <<lastSeq, wpc, state, cur, streams, drops, reuse, build,
                   agent, chat, pvars>>

\* the holders of a stream's stop flag and receiver act on them while the
\* worker serves the stream (earlier, the worker sees the same at its first
\* check; later, it looks at neither again)
StreamOpen(id) ==
    /\ id \in DOMAIN streams
    /\ InFlight /\ cur.id = id

\* the stop flag is stored true
SetStop(id) ==
    /\ StreamOpen(id)
    /\ ~streams[id].stop
    /\ streams' = [streams EXCEPT
          ![id].stop = TRUE,
          ![id].stop_in_flight = InFlight /\ cur.id = id,
          ![id].sink_at_stop = Len(streams[id].sink)]
    /\ UNCHANGED <<engine, queue, nextSeq, lastSeq, wpc, state, cur, drops,
                   reuse, build, agent, chat, pvars>>

\* the receiver is dropped
DropReceiver(id) ==
    /\ StreamOpen(id)
    /\ streams[id].rx
    /\ streams' = [streams EXCEPT ![id].rx = FALSE]
    /\ UNCHANGED <<engine, queue, nextSeq, lastSeq, wpc, state, cur, drops,
                   reuse, build, agent, chat, pvars>>

\* ------------------------------------------------------------- the worker
\* dropping a value of WorkerState: fields go in declaration order (backend,
\* model, ctx); this is what unwinding from a panic does
UnwindDrops(st) ==
    (IF st.backend THEN <<"backend">> ELSE <<>>)
    \o (IF st.model.some THEN <<"model">> ELSE <<>>)
    \o (IF st.ctx.some THEN <<"ctx">> ELSE <<>>)

Unwound(st) == [st EXCEPT !.backend = FALSE, !.model = NoModel, !.ctx = NoCtx]

DropCtxStaleSizes(st) == [st EXCEPT !.ctx = NoCtx]
\* state.ctx = None; state.ctx_n_ctx = 0; state.ctx_n_batch = 0
DropCtx(st) == [st EXCEPT !.ctx = NoCtx, !.ctx_n_ctx = 0, !.ctx_n_batch = 0]

\* ... followed by state.model = None
ClearModel(st) == [DropCtx(st) EXCEPT !.model = NoModel]

ClearDrops(st) ==
    (IF st.ctx.some THEN <<"ctx">> ELSE <<>>)
    \o (IF st.model.some THEN <<"model">> ELSE <<>>)

\* the reply a queued LOAD gets when the worker goes away: its response_tx
\* is dropped with the queue
Orphaned(q, eng) ==
    IF \E i \in 1..Len(q) : q[i].type = "LoadModel"
      THEN [eng EXCEPT !.loadReply = "disconnected"]
      ELSE eng

\* load_model_internal: "ok" or the error
load_model_internal(st, file) ==
    IF ~st.backend THEN "BackendNotInitialized"
    ELSE IF file = "missing" THEN "ModelLoad"
    ELSE IF ~RuntimeLoads(file) THEN "ModelLoad"
    ELSE "ok"

\* the WorkerState the LoadModel handler leaves: the old context and model
\* are dropped before the load is tried
AfterLoad(st, file) ==
    LET cleared == ClearModel(st)
    IN  IF load_model_internal(cleared, file) = "ok"
          THEN [cleared EXCEPT !.model =
                  [some |-> TRUE, n_ctx_train |-> TrainCtxOf(file)]]
          ELSE cleared

\* worker_thread_main, Ok(WorkerCommand::Init)
WorkerInit ==
    /\ wpc = "recv" /\ queue # <<>>
    /\ NextCommand(queue).type = "Init"
    /\ queue' = Dequeue(queue)
    /\ lastSeq' = NextCommand(queue).seq
    /\ \E backend_ok \in BOOLEAN :
          state' = [state EXCEPT !.backend = IF backend_ok THEN TRUE ELSE @]
    /\ drops' = <<>>
    /\ reuse' = NoReuse
    /\ UNCHANGED <<engine, nextSeq, wpc, cur, streams, build,
                   agent, chat, pvars>>

\* worker_thread_main, Ok(WorkerCommand::LoadModel)
WorkerLoadModel ==
    /\ wpc = "recv" /\ queue # <<>>
    /\ NextCommand(queue).type = "LoadModel"
    /\ queue' = Dequeue(queue)
    /\ lastSeq' = NextCommand(queue).seq
    /\ LET file == NextCommand(queue).file
       IN  /\ drops' = ClearDrops(state)
           /\ state' = AfterLoad(state, file)
           /\ engine' = [engine EXCEPT !.loadReply =
                            load_model_internal(ClearModel(state), file)]
    /\ reuse' = NoReuse
    /\ UNCHANGED <<nextSeq, wpc, cur, streams, build, agent, chat, pvars>>

\* worker_thread_main, Ok(WorkerCommand::UnloadModel)
WorkerUnloadModel ==
    /\ wpc = "recv" /\ queue # <<>>
    /\ NextCommand(queue).type = "UnloadModel"
    /\ queue' = Dequeue(queue)
    /\ lastSeq' = NextCommand(queue).seq
    /\ drops' = ClearDrops(state)
    /\ state' = ClearModel(state)
    /\ reuse' = NoReuse
    /\ UNCHANGED <<engine, nextSeq, wpc, cur, streams, build,
                   agent, chat, pvars>>

\* worker_thread_main, Ok(WorkerCommand::Shutdown): ctx, model, backend are
\* set to None in that order and the thread ends
WorkerShutdown ==
    /\ wpc = "recv" /\ queue # <<>>
    /\ NextCommand(queue).type = "Shutdown"
    /\ lastSeq' = NextCommand(queue).seq
    /\ queue' = <<>>
    /\ drops' = ClearDrops(state) \o (IF state.backend THEN <<"backend">> ELSE <<>>)
    /\ state' = [state EXCEPT !.ctx = NoCtx, !.model = NoModel, !.backend = FALSE]
    /\ wpc' = "exited"
    /\ engine' = Orphaned(Dequeue(queue), engine)
    /\ reuse' = NoReuse
    /\ UNCHANGED <<nextSeq, cur, streams, build, agent, chat, pvars>>

\* ------------------------------------------------------------- GENERATE
NeedNewCtxIgnoringBatch(st, n_ctx, needed_batch) ==
    ~(st.ctx.some /\ LeU(n_ctx, st.ctx_n_ctx))

\* the match on state.ctx of run_generation_persistent: a new context is
\* needed unless one is held that is large enough in both sizes
NeedNewCtx(st, n_ctx, needed_batch) ==
    ~(/\ st.ctx.some
      /\ LeU(n_ctx, st.ctx_n_ctx)
      /\ LeU(needed_batch, st.ctx_n_batch))

\* the builds a run may still turn out to be
Builds(b) == IF b = "any" THEN {"debug", "release"} ELSE {b}

\* run_generation_persistent up to the call of run_inference.  create_ok is
\* whether the runtime creates the context when asked; bld is the build.
\* outcome: "error" (an Err is returned), "panic", or "run"
run_generation_persistent(st, input, create_ok, bld) ==
    LET prompt_len == input.prompt_len
        n_ctx == RequiredCtx(prompt_len, input.max_tokens,
                             input.max_context_size, st.model.n_ctx_train)
        needed_batch == calculate_optimal_batch(n_ctx, prompt_len)
        need_new_ctx == NeedNewCtx(st, n_ctx, needed_batch)
        dropped == DropCtx(st)
        created == [dropped EXCEPT
                      !.ctx = [some |-> TRUE, n_ctx |-> n_ctx,
                               n_batch |-> needed_batch],
                      !.ctx_n_ctx = n_ctx,
                      !.ctx_n_batch = needed_batch]
        decision == [valid |-> TRUE, had |-> st.ctx.some,
                     stored_n_ctx |-> st.ctx_n_ctx,
                     stored_n_batch |-> st.ctx_n_batch,
                     n_ctx |-> n_ctx, needed_batch |-> needed_batch,
                     kept |-> ~need_new_ctx,
                     dropped_old |-> need_new_ctx /\ st.ctx.some,
                     attempts |-> IF need_new_ctx /\ n_ctx # 0 THEN 1 ELSE 0,
                     built |-> IF need_new_ctx /\ n_ctx # 0 /\ create_ok
                                 THEN 1 ELSE 0,
                     after_error |-> FALSE]
        ctx_drop == IF need_new_ctx /\ st.ctx.some THEN <<"ctx">> ELSE <<>>
    IN  IF ~input.tokenizes
          THEN [outcome |-> "error", st |-> st, decided |-> FALSE,
                decision |-> NoReuse, drops |-> <<>>]
        ELSE IF bld = "debug" /\ SizingOverflows(prompt_len, input.max_tokens)
          THEN [outcome |-> "panic", st |-> st, decided |-> FALSE,
                decision |-> NoReuse, drops |-> <<>>]
        ELSE IF ~need_new_ctx
          THEN [outcome |-> "run", st |-> st, decided |-> TRUE,
                decision |-> decision, drops |-> <<>>]
        ELSE IF n_ctx = 0
          THEN [outcome |-> "panic", st |-> dropped, decided |-> TRUE,
                decision |-> decision, drops |-> ctx_drop]
        ELSE IF ~create_ok
          THEN [outcome |-> "error", st |-> dropped, decided |-> TRUE,
                decision |-> decision, drops |-> ctx_drop]
        ELSE [outcome |-> "run", st |-> created, decided |-> TRUE,
              decision |-> decision, drops |-> ctx_drop]

\* the rest of run_generation_persistent and run_inference up to the prefill
\* loop: the clamped budget, the batch, the truncated prompt
InferenceLocals(st, input, id) ==
    LET prompt_len == input.prompt_len
        actual_n_ctx == st.ctx_n_ctx
        available == MaxU(SatSub(actual_n_ctx, prompt_len), MinAvailable)
        max_tokens == MinU(input.max_tokens, available)
        n_batch == calculate_optimal_batch(actual_n_ctx, prompt_len)
        max_prompt == MaxU(SatSub(actual_n_ctx, max_tokens), 1)
        kept_len == MinU(prompt_len, max_prompt)
        batch_size == MaxU(1, n_batch)
    IN  [id |-> id, prompt_len |-> kept_len, batch_size |-> batch_size,
         nchunks |-> CeilDiv(kept_len, batch_size), chunk |-> 0,
         max_tokens |-> max_tokens, tokens_generated |-> 0,
         hit_eos |-> FALSE, utf8_buffer |-> <<>>, n_ctx |-> actual_n_ctx]

\* the GENERATE served before this one ended with Error
LastEndedInError ==
    \E k \in DOMAIN streams :
        /\ k <= lastSeq
        /\ streams[k].sink # <<>>
        /\ streams[k].sink[Len(streams[k].sink)].kind = "Error"

\* worker_thread_main, Ok(WorkerCommand::Generate), up to the first prompt
\* chunk
WorkerGenerate ==
    /\ wpc = "recv" /\ queue # <<>>
    /\ NextCommand(queue).type = "Generate"
    /\ lastSeq' = NextCommand(queue).seq
    /\ LET cmd == NextCommand(queue)
           id == cmd.id
           live == Forget(streams, id)
       IN  IF ~state.backend \/ ~state.model.some
             THEN /\ streams' = Send(live, id, "Error", 0, 0)
                  /\ queue' = Dequeue(queue)
                  /\ drops' = <<>>
                  /\ reuse' = NoReuse
                  /\ UNCHANGED <<engine, wpc, state, cur, build>>
             ELSE \E create_ok \in BOOLEAN, bld \in Builds(build) :
                  LET r == run_generation_persistent(state, cmd.input,
                                                     create_ok, bld)
                  IN  /\ reuse' = [r.decision EXCEPT !.after_error =
                                       r.decided /\ LastEndedInError]
                      /\ build' = IF /\ cmd.input.tokenizes
                                     /\ SizingOverflows(cmd.input.prompt_len,
                                                        cmd.input.max_tokens)
                                  THEN bld ELSE build
                      /\ CASE r.outcome = "panic" ->
                                /\ wpc' = "panicked"
                                /\ drops' = r.drops \o UnwindDrops(r.st)
                                /\ state' = Unwound(r.st)
                                /\ queue' = <<>>
                                /\ engine' = Orphaned(Dequeue(queue), engine)
                                /\ streams' = live
                                /\ UNCHANGED cur
                           [] r.outcome = "error" ->
                                /\ streams' = Send(live, id, "Error", 0, 0)
                                /\ state' = r.st
                                /\ drops' = r.drops
                                /\ queue' = Dequeue(queue)
                                /\ UNCHANGED <<engine, wpc, cur>>
                           [] r.outcome = "run" /\ cmd.input.prompt_len = 0 ->
                                /\ streams' = Send(live, id, "Error", 0, 0)
                                /\ state' = r.st
                                /\ drops' = r.drops
                                /\ queue' = Dequeue(queue)
                                /\ UNCHANGED <<engine, wpc, cur>>
                           [] OTHER ->
                                /\ wpc' = "prefill"
                                /\ cur' = InferenceLocals(r.st, cmd.input, id)
                                /\ state' = r.st
                                /\ drops' = r.drops
                                /\ queue' = Dequeue(queue)
                                /\ streams' = live
                                /\ UNCHANGED engine
    /\ UNCHANGED <<nextSeq, agent, chat, pvars>>

\* run_inference: one chunk of the prompt
WorkerPrefill ==
    /\ wpc = "prefill"
    /\ drops' = <<>>
    /\ IF streams[cur.id].stop
         THEN \* return Ok(()): nothing is sent
              /\ wpc' = "recv"
              /\ cur' = NoCur
              /\ UNCHANGED streams
         ELSE \E decode_ok \in BOOLEAN :
              IF ~decode_ok
                THEN /\ streams' = Send(streams, cur.id, "Error", 0, 0)
                     /\ wpc' = "recv"
                     /\ cur' = NoCur
                ELSE /\ cur' = [cur EXCEPT !.chunk = @ + 1]
                     /\ wpc' = IF cur.chunk + 1 < cur.nchunks THEN "prefill"
                               ELSE IF cur.max_tokens = 0 THEN "finish"
                               ELSE "sample"
                     /\ UNCHANGED streams
    /\ reuse' = NoReuse
    /\ UNCHANGED <<engine, queue, nextSeq, lastSeq, state, build,
                   agent, chat, pvars>>

\* run_inference: one turn of the sampling loop
WorkerSample ==
    /\ wpc = "sample"
    /\ drops' = <<>>
    /\ IF streams[cur.id].stop
         THEN /\ wpc' = "finish"
              /\ UNCHANGED <<cur, streams>>
         ELSE \/ \* the sampled token ends the generation
                 /\ streams' = SendText(streams, cur.id,
                                        flush_utf8_buffer(cur.utf8_buffer))
                 /\ cur' = [cur EXCEPT !.hit_eos = TRUE, !.utf8_buffer = <<>>]
                 /\ wpc' = "finish"
              \/ \* token_to_bytes fails
                 /\ cur.tokens_generated < MaxGen
                 /\ streams' = Send(streams, cur.id, "Error", 0, 0)
                 /\ wpc' = "recv"
                 /\ cur' = NoCur
              \/ /\ cur.tokens_generated < MaxGen
                 /\ \E bytes \in TokenBytes, decode_ok \in BOOLEAN :
                    LET e == emit_valid_utf8(cur.utf8_buffer \o bytes,
                                             streams[cur.id].rx)
                        sent == SendText(streams, cur.id, e.text)
                        n == cur.tokens_generated + 1
                    IN  IF ~e.ok
                          THEN /\ streams' = sent
                               /\ cur' = [cur EXCEPT !.tokens_generated = n,
                                                     !.utf8_buffer = e.buffer]
                               /\ wpc' = "finish"
                        ELSE IF ~decode_ok
                          THEN /\ streams' = Send(sent, cur.id, "Error", 0, 0)
                               /\ wpc' = "recv"
                               /\ cur' = NoCur
                        ELSE /\ streams' = sent
                             /\ cur' = [cur EXCEPT !.tokens_generated = n,
                                                   !.utf8_buffer = e.buffer]
                             /\ wpc' = IF n = cur.max_tokens THEN "finish"
                                       ELSE "sample"
    /\ reuse' = NoReuse
    /\ UNCHANGED <<engine, queue, nextSeq, lastSeq, state, build,
                   agent, chat, pvars>>

\* a completion signal that does not read the stop flag
CompletionSignalIgnoringStop(hit_eos, stop) ==
    IF hit_eos THEN "Done" ELSE "Truncated"

\* the completion signal of run_inference
CompletionSignal(hit_eos, stop) ==
    IF hit_eos \/ stop THEN "Done" ELSE "Truncated"

\* run_inference after the loop: the flush and the completion signal
WorkerFinish ==
    /\ wpc = "finish"
    /\ drops' = <<>>
    /\ LET flushed == SendText(streams, cur.id,
                               flush_utf8_buffer(cur.utf8_buffer))
       IN  streams' = IF CompletionSignal(cur.hit_eos, streams[cur.id].stop)
                             = "Done"
                        THEN Send(flushed, cur.id, "Done", 0, 0)
                        ELSE Send(flushed, cur.id, "Truncated",
                                  cur.tokens_generated, cur.max_tokens)
    /\ wpc' = "recv"
    /\ cur' = NoCur
    /\ reuse' = NoReuse
    /\ UNCHANGED <<engine, queue, nextSeq, lastSeq, state, build,
                   agent, chat, pvars>>

\* ------------------------------------------------------------- the system
Next ==
    \/ EngineInit
    \/ \E file \in Files : EngineLoad(file)
    \/ EngineLoadReturn
    \/ EngineUnload
    \/ \E input \in GenInputs : EngineGenerate(input)
    \/ EngineDrop
    \/ \E id \in DOMAIN streams : SetStop(id)
    \/ \E id \in DOMAIN streams : DropReceiver(id)
    \/ WorkerInit
    \/ WorkerLoadModel
    \/ WorkerUnloadModel
    \/ WorkerShutdown
    \/ WorkerGenerate
    \/ WorkerPrefill
    \/ WorkerSample
    \/ WorkerFinish

Spec == Init /\ [][Next]_vars

\* ------------------------------------------- GENERATE, contexts of any size
\* GENERATE commands whose params ask for contexts of different sizes: a long
\* prompt in a context of 2048, then shorter prompts with a max_context_size
\* of 256 and of 32
SizedInputs ==
    { GenInput(5000, 2, 2048, TRUE),   \* truncated, context 2048, batch 256
      GenInput(300, 2, 256, TRUE),     \* context 256, batch 256
      GenInput(100, 256, 32, TRUE) }   \* context 32, budget 256

NextSized ==
    \/ EngineInit
    \/ EngineLoad("good")
    \/ EngineLoadReturn
    \/ \E input \in SizedInputs : EngineGenerate(input)
    \/ WorkerInit
    \/ WorkerLoadModel
    \/ WorkerGenerate
    \/ WorkerPrefill
    \/ WorkerSample
    \/ WorkerFinish

SpecSized == Init /\ [][NextSized]_vars

\* ----------------------------------------------------- agent loop, steps
\* handle_send up to the spawn of the run
AgentSend(loaded, settings) ==
    /\ agent.pc = "idle"
    /\ agent.messages = <<>>
    /\ IF ~loaded
         THEN agent' = [agent EXCEPT
                  !.messages = Append(@, Msg("Assistant", "not_loaded"))]
         ELSE agent' = [agent EXCEPT
                  !.pc = "loop", !.settings = settings, !.state = "Analyzing",
                  !.messages = @ \o <<Msg("User", "user"), Msg("Assistant", "")>>]
    /\ UNCHANGED <<wvars, chat, pvars>>

\* the user presses stop
AgentStop ==
    /\ agent.pc \notin {"idle", "done"}
    /\ ~agent.stop_signal
    /\ agent' = [agent EXCEPT !.stop_signal = TRUE]
    /\ UNCHANGED <<wvars, chat, pvars>>

\* the whole seconds agent_ctx.elapsed().as_secs() reads at a guard check, on
\* either side of the limit: 300 stands for every reading up to 300
ElapsedSecs == {300, 301}

\* a loop without the runtime check
TooLateNever(secs) == FALSE

\* more than 5 minutes
TooLate(secs) == secs > 300

\* the head of the loop to the start of the stream; secs: the seconds the
\* runtime check reads (kept in elapsed); big: the prompt is over 75% of the
\* context size; gen_ok: generate_stream_messages returned the stream
AgentLoop(secs, big, gen_ok) ==
    /\ agent.pc = "loop"
    /\ agent.elapsed <= secs
    /\ IF ~(agent.iteration < agent.settings.max_iterations)
         THEN agent' = Break(agent, "iterations")
         ELSE LET a == [agent EXCEPT !.iteration = @ + 1]
              IN  IF a.stop_signal THEN agent' = Break(a, "stop")
                  ELSE IF is_stuck(a)
                    THEN agent' = [Break(a, "stuck") EXCEPT
                            !.messages = Append(@, Msg("Assistant", "stuck"))]
                  ELSE IF TooLate(secs)
                    THEN agent' = [Break(a, "time") EXCEPT !.elapsed = secs,
                            !.messages = Append(@, Msg("Assistant", "late"))]
                  ELSE IF big /\ a.compression_count = 0
                    THEN agent' = [a EXCEPT
                            !.elapsed = secs,
                            !.compression_count = @ + 1,
                            !.compactions = Append(@, "proactive"),
                            !.messages = ProactivelyCompressed(@)]
                  ELSE IF ~gen_ok
                    THEN LET e == [a EXCEPT
                                !.elapsed = secs,
                                !.state = "Thinking",
                                !.consecutive_errors = @ + 1,
                                !.messages =
                                    Append(@, Msg("Assistant", "gen_error"))]
                         IN  agent' = IF e.consecutive_errors >= 3
                                        THEN Break(e, "gen_errors") ELSE e
                  ELSE agent' = [a EXCEPT !.elapsed = secs,
                                          !.state = "Thinking",
                                          !.pc = "stream"]
    /\ UNCHANGED <<wvars, chat, pvars>>

\* how the drain loop ends; "ErrorGarbage": the batch that holds the Error
\* makes the text garbage, and the warning replaces the text and the error;
\* "TruncatedGarbage": the batch that ends with Truncated makes the text
\* garbage
StreamOutcomes == {"Done", "Truncated", "Error", "Disconnected", "Garbage",
                   "ErrorGarbage", "TruncatedGarbage"}
GarbageOutcomes == {"Garbage", "ErrorGarbage", "TruncatedGarbage"}
TruncatedOutcomes == {"Truncated", "TruncatedGarbage"}
Extracted(kind, call) == [kind |-> kind, call |-> call]
Extractions == {Extracted("none", NoCall), Extracted("malformed", NoCall)}
                 \cup {Extracted("call", call) : call \in ToolCalls}

\* the drain of the token channel and the loop body up to the permission
\* request
AgentStream(outcome, extracted, small) ==
    /\ agent.pc = "stream"
    /\ LET a == [agent EXCEPT
                   !.consecutive_errors =
                       IF outcome \in {"Error", "ErrorGarbage"} THEN @ + 1
                       ELSE @,
                   !.messages = SetLast(@,
                       CASE outcome = "Error" -> "stream_error"
                         [] outcome \in GarbageOutcomes -> "garbage"
                         [] OTHER -> "text")]
       IN  IF outcome \in TruncatedOutcomes /\ ~agent.stop_signal
             THEN agent' = AfterTruncated(a, small)
           ELSE IF outcome = "Error"
             THEN agent' = AfterStreamError(a)
           ELSE IF outcome \in GarbageOutcomes
             THEN agent' = AfterGeneration(a, Extracted("none", NoCall))
           ELSE agent' = AfterGeneration(a, extracted)
    /\ UNCHANGED <<wvars, chat, pvars>>

\* PermissionManager::request_permission and the arms of the match that do
\* not wait
AgentRequestPermission(result) ==
    /\ agent.pc = "request"
    /\ agent' = [agent EXCEPT
          !.requested = TRUE,
          !.permission_result = result,
          !.state = IF result = "Pending" THEN "WaitingForUser" ELSE @,
          !.messages = CASE result = "Pending" -> SetLast(@, "awaiting")
                         [] result = "Denied" -> SetLast(@, "denied")
                         [] OTHER -> @,
          !.pc = IF result = "Pending" THEN "waiting" ELSE "resolved"]
    /\ UNCHANGED <<wvars, chat, pvars>>

\* time passes in wait_for_decision
AgentWait(d) ==
    /\ agent.pc = "waiting"
    /\ agent.waited + d <= PermissionTimeoutSecs
    /\ agent' = [agent EXCEPT !.waited = @ + d]
    /\ UNCHANGED <<wvars, chat, pvars>>

\* wait_for_decision returns the user's decision
AgentDecision(decision) ==
    /\ agent.pc = "waiting"
    /\ agent.waited < PermissionTimeoutSecs
    /\ agent' = [agent EXCEPT
          !.decision = decision,
          !.messages = IF decision = "Denied" THEN SetLast(@, "denied") ELSE @,
          !.pc = "resolved"]
    /\ UNCHANGED <<wvars, chat, pvars>>

\* wait_for_decision returns None at the deadline
AgentDecisionTimeout ==
    /\ agent.pc = "waiting"
    /\ agent.waited = PermissionTimeoutSecs
    /\ agent' = [agent EXCEPT
          !.decision = "None",
          !.messages = SetLast(@, "expired"),
          !.pc = "resolved"]
    /\ UNCHANGED <<wvars, chat, pvars>>

\* from the permission outcome to the call of the tool
AgentResolved ==
    /\ agent.pc = "resolved"
    /\ IF ~approved(agent.permission_result, agent.decision)
         THEN agent' = [EndOfCall(agent) EXCEPT
                !.tool_history = PushHistory(@,
                    ToolHistoryEntry(agent.call, "None", "Permission denied", "0")),
                !.messages = @ \o <<Msg("System", "refused"),
                                    Msg("Assistant", "")>>,
                !.pc = "loop"]
       ELSE IF agent.call.tool \notin Registry
         THEN agent' = [EndOfCall(agent) EXCEPT
                !.consecutive_errors = @ + 1,
                !.messages = SetLast(@, "not_found")
                               \o <<Msg("System", "available"),
                                    Msg("Assistant", "")>>,
                !.pc = IF agent.consecutive_errors + 1 >= 3
                         THEN "exit" ELSE "loop",
                !.reason = IF agent.consecutive_errors + 1 >= 3
                             THEN "not_found" ELSE @]
       ELSE agent' = [agent EXCEPT !.executions = @ + 1, !.pc = "executing"]
    /\ UNCHANGED <<wvars, chat, pvars>>

\* the tool's result, or the timeout of the call; the text of an error is
\* not kept
AgentToolResult(result) ==
    /\ agent.pc = "executing"
    /\ IF result = "Ok"
         THEN agent' = [EndOfCall(agent) EXCEPT
                !.tool_history = PushHistory(@,
                    ToolHistoryEntry(agent.call, "Some", "None", "elapsed")),
                !.messages = ToolSuccessMessages(@),
                !.state = "Reflecting",
                !.pc = "loop"]
         ELSE agent' = [EndOfCall(agent) EXCEPT
                !.tool_history = PushHistory(@,
                    ToolHistoryEntry(agent.call, "None", "Some", "elapsed")),
                !.consecutive_errors = @ + 1,
                !.messages = SetLast(@, "tool_error")
                    \o <<Msg("System", IF agent.consecutive_errors + 1 < 4
                                         THEN "reflect" ELSE "too_many"),
                         Msg("Assistant", "")>>,
                !.state = IF agent.consecutive_errors + 1 < 4
                            THEN "Reflecting" ELSE "Observing",
                !.pc = "loop"]
    /\ UNCHANGED <<wvars, chat, pvars>>

\* after the loop
AgentExit ==
    /\ agent.pc = "exit"
    /\ agent' = [agent EXCEPT !.pc = "done",
                              !.messages = PopEmptyAssistant(@)]
    /\ UNCHANGED <<wvars, chat, pvars>>

NextAgent ==
    \/ \E loaded \in BOOLEAN, settings \in SettingsSet :
         AgentSend(loaded, settings)
    \/ AgentStop
    \/ \E secs \in ElapsedSecs, big, gen_ok \in BOOLEAN :
         AgentLoop(secs, big, gen_ok)
    \/ \E outcome \in StreamOutcomes, extracted \in Extractions,
          small \in BOOLEAN : AgentStream(outcome, extracted, small)
    \/ \E result \in {"Approved", "Pending", "Denied"} :
         AgentRequestPermission(result)
    \/ \E d \in Delays : AgentWait(d)
    \/ \E decision \in {"Approved", "Denied"} : AgentDecision(decision)
    \/ AgentDecisionTimeout
    \/ AgentResolved
    \/ \E result \in {"Failed", "Timeout"} \cup {"Ok"} : AgentToolResult(result)
    \/ AgentExit

SpecAgent == Init /\ [][NextAgent]_vars

\* ------------------------------------------------ agent loop, long runs
\* runs of two more iterations, with every tool approved by the settings
LongSettings ==
    [SettingsOf(TRUE, TRUE, {}) EXCEPT !.max_iterations = MaxIterations + 2]

NextStuck ==
    \/ AgentSend(TRUE, LongSettings)
    \/ \E gen_ok \in BOOLEAN : AgentLoop(0, FALSE, gen_ok)
    \/ \E outcome \in {"Done", "Error"},
          call \in {ToolCall("think", "a"), ToolCall("bash", "a")} :
         AgentStream(outcome, Extracted("call", call), FALSE)
    \/ AgentResolved
    \/ \E result \in {"Failed", "Ok"} : AgentToolResult(result)
    \/ AgentExit

SpecStuck == Init /\ [][NextStuck]_vars

\* ------------------------------------------------ sampling loop, UTF-8
\* the bytes of the tokens of a generation: A, e acute, the euro sign and an
\* emoji, of 1, 2, 3 and 4 bytes
Utf8Chars == {<<65>>, <<195, 169>>, <<226, 130, 172>>, <<240, 159, 152, 128>>}

RECURSIVE Flatten(_)
Flatten(ss) == IF ss = <<>> THEN <<>> ELSE Head(ss) \o Flatten(Tail(ss))

\* the texts of up to max characters, as lists of characters
Utf8Texts(max) == UNION {[1..n -> Utf8Chars] : n \in 0..max}

\* the offsets of text S at which a character ends
Boundaries(cs) == {Len(Flatten(SubSeq(cs, 1, k))) : k \in 0..Len(cs)}

\* the token bytes: s from offset from on, cut after each offset of cuts
RECURSIVE Chunks(_, _, _)
Chunks(s, cuts, from) ==
    IF from > Len(s) THEN <<>>
    ELSE LET later == {c \in cuts : c >= from}
             to == IF later = {} THEN Len(s)
                   ELSE CHOOSE c \in later : \A d \in later : c <= d
         IN  <<SubSeq(s, from, to)>> \o Chunks(s, cuts, to + 1)

\* a text and one way to cut it into token bytes
Utf8Input(cs, cuts) ==
    [S |-> Flatten(cs), boundaries |-> Boundaries(cs), cuts |-> cuts,
     chunks |-> Chunks(Flatten(cs), cuts, 1), buffer |-> <<>>,
     emitted |-> <<>>, done |-> FALSE]

Utf8Inputs(max) ==
    UNION {{Utf8Input(cs, cuts) : cuts \in SUBSET (1..(Len(Flatten(cs)) - 1))}
             : cs \in Utf8Texts(max)}

InitUtf8 ==
    /\ InitProgram /\ sizing = SizingIdle /\ gguf = GgufIdle /\ perm = PermIdle
    /\ compact = CompactIdle
    /\ utf8 \in Utf8Inputs(MaxChars)

\* one turn of the sampling loop: the bytes of the token join the buffer and
\* emit_valid_utf8 sends what it can
Utf8Token ==
    /\ ~utf8.done
    /\ utf8.chunks # <<>>
    /\ LET r == emit_valid_utf8(utf8.buffer \o Head(utf8.chunks), TRUE)
       IN  utf8' = [utf8 EXCEPT
                      !.chunks = Tail(@),
                      !.buffer = r.buffer,
                      !.emitted = IF r.text # <<>> THEN Append(@, r.text) ELSE @]
    /\ UNCHANGED <<wvars, agent, chat, sizing, gguf, perm, compact>>

\* the end of the sampling loop: flush_utf8_buffer
Utf8End ==
    /\ ~utf8.done
    /\ utf8.chunks = <<>>
    /\ LET text == flush_utf8_buffer(utf8.buffer)
       IN  utf8' = [utf8 EXCEPT
                      !.buffer = <<>>,
                      !.done = TRUE,
                      !.emitted = IF text # <<>> THEN Append(@, text) ELSE @]
    /\ UNCHANGED <<wvars, agent, chat, sizing, gguf, perm, compact>>

NextUtf8 == Utf8Token \/ Utf8End

SpecUtf8 == InitUtf8 /\ [][NextUtf8]_vars

\* ------------------------------------------------------ context sizing
\* prompt lengths, output budgets (-1 is 4294967295), configured context
\* sizes and train lengths of a GENERATE
PromptLens == {0, 100, 1500, 3000, 5000, 140000}
OutputBudgets == {0, 2, 256, 4096, 200000, -1}
ContextSizes == {0, 100, 2048, 4096, 8192, 131072, 200000, -1}
TrainLens == {0, 4096, 32768, 200000}

InitSizing ==
    /\ InitProgram /\ utf8 = Utf8Idle /\ gguf = GgufIdle /\ perm = PermIdle
    /\ compact = CompactIdle
    /\ sizing \in [phase : {"input"}, prompt_len : PromptLens,
                    max_tokens : OutputBudgets,
                    max_context_size : ContextSizes, model_max : TrainLens,
                    n_ctx : {0}]

\* run_generation_persistent from effective_max to n_ctx, in a build with
\* (debug) or without (release) overflow checks
SizeContext(bld) ==
    /\ sizing.phase = "input"
    /\ IF bld = "debug" /\ SizingOverflows(sizing.prompt_len, sizing.max_tokens)
         THEN sizing' = [sizing EXCEPT !.phase = "panicked"]
         ELSE sizing' = [sizing EXCEPT
                 !.phase = "done",
                 !.n_ctx = RequiredCtx(sizing.prompt_len, sizing.max_tokens,
                                       sizing.max_context_size,
                                       sizing.model_max)]
    /\ UNCHANGED <<wvars, agent, chat, utf8, gguf, perm, compact>>

NextSizing == \E bld \in Builds("any") : SizeContext(bld)

SpecSizing == InitSizing /\ [][NextSizing]_vars

\* ------------------------------------------------- chat view, its tasks
\* the input box calls on_send only when is_generating is false
InputSends(c) == ~c.is_generating

\* the calls of handle_send so far
Sends(c) == Cardinality({i \in DOMAIN c.writes : c.writes[i] = 0})

\* ChatInput's send and handle_send: the model check, the two messages, the
\* flags and the spawn
ChatSend(loaded) ==
    /\ InputSends(chat)
    /\ Sends(chat) < MaxRuns
    /\ IF ~loaded
         THEN chat' = [chat EXCEPT !.writes = Append(@, 0)]
         ELSE chat' = [chat EXCEPT
                 !.writes = Append(@, 0),
                 !.stop_signal = FALSE,
                 !.is_generating = TRUE,
                 !.tasks = Append(@, [pc |-> "loop", iteration |-> 0,
                                      stopped |-> FALSE])]
    /\ UNCHANGED <<wvars, agent, pvars>>

\* ChatInput's stop (shown while is_generating) and handle_stop; stopped
\* notes for each task whether stop was pressed while it was running
ChatStop ==
    /\ chat.is_generating
    /\ chat' = [chat EXCEPT
          !.stop_signal = TRUE,
          !.is_generating = FALSE,
          !.tasks = [t \in DOMAIN @ |->
                        IF @[t].pc # "done" THEN [@[t] EXCEPT !.stopped = TRUE]
                        ELSE @[t]]]
    /\ UNCHANGED <<wvars, agent, pvars>>

\* one iteration of the task t: the while test, the stop check, then the
\* body, which writes the message list
TaskIterate(t) ==
    /\ t \in DOMAIN chat.tasks
    /\ chat.tasks[t].pc = "loop"
    /\ IF ~(chat.tasks[t].iteration < MaxIterations)
         THEN chat' = [chat EXCEPT !.tasks[t].pc = "exit"]
       ELSE IF chat.stop_signal
         THEN chat' = [chat EXCEPT !.tasks[t].iteration = @ + 1,
                                   !.tasks[t].pc = "exit"]
       ELSE chat' = [chat EXCEPT !.tasks[t].iteration = @ + 1,
                                 !.writes = Append(@, t)]
    /\ UNCHANGED <<wvars, agent, pvars>>

\* the task t after its loop
TaskExit(t) ==
    /\ t \in DOMAIN chat.tasks
    /\ chat.tasks[t].pc = "exit"
    /\ chat' = [chat EXCEPT !.tasks[t].pc = "done", !.is_generating = FALSE]
    /\ UNCHANGED <<wvars, agent, pvars>>

NextRuns ==
    \/ \E loaded \in BOOLEAN : ChatSend(loaded)
    \/ ChatStop
    \/ \E t \in 1..MaxRuns : TaskIterate(t)
    \/ \E t \in 1..MaxRuns : TaskExit(t)

SpecRuns == Init /\ [][NextRuns]_vars

\* --------------------------------------------------------- GGUF header
\* GGUF_MAGIC, 0x46554747
GGUF_MAGIC == 1179993927

\* a u64 as its two 32-bit halves, each in the 32-bit coding of a u32
U64(lo, hi) == [lo |-> lo, hi |-> hi]

\* u32::to_le_bytes and u64::to_le_bytes, as create_test_gguf writes a header
u32_to_le_bytes(w) ==
    <<w % 256, (w \div 256) % 256, (w \div 65536) % 256,
      (w \div 16777216) % 256>>

u64_to_le_bytes(n) == u32_to_le_bytes(n.lo) \o u32_to_le_bytes(n.hi)

\* the bytes of a u32 read most significant byte first
u32_from_be_bytes(b) ==
    b[4] + 256 * b[3] + 65536 * b[2]
      + 16777216 * (IF b[1] >= 128 THEN b[1] - 256 ELSE b[1])

\* u32::from_le_bytes
u32_from_le_bytes(b) ==
    b[1] + 256 * b[2] + 65536 * b[3]
      + 16777216 * (IF b[4] >= 128 THEN b[4] - 256 ELSE b[4])

\* u64::from_le_bytes
u64_from_le_bytes(b) ==
    U64(u32_from_le_bytes(SubSeq(b, 1, 4)), u32_from_le_bytes(SubSeq(b, 5, 8)))

\* Err(ModelError) and Ok(GgufMetadata)
GgufErr(kind, arg) ==
    [kind |-> kind, arg |-> arg, version |-> 0, tensor_count |-> U64(0, 0),
     metadata_kv_count |-> U64(0, 0)]

GgufOk(version, tensor_count, metadata_kv_count) ==
    [kind |-> "Ok", arg |-> 0, version |-> version,
     tensor_count |-> tensor_count, metadata_kv_count |-> metadata_kv_count]

\* validate_gguf on a file with these bytes that File::open opens or not
validate_gguf(bytes, opens) ==
    IF ~opens THEN GgufErr("FileOpen", 0)
    ELSE IF Len(bytes) < 24 THEN GgufErr("FileTooSmall", 0)
    ELSE LET magic == u32_from_le_bytes(SubSeq(bytes, 1, 4))
         IN  IF magic # GGUF_MAGIC THEN GgufErr("InvalidMagic", magic)
             ELSE LET version == u32_from_le_bytes(SubSeq(bytes, 5, 8))
                  IN  IF LtU(version, 2) \/ LtU(3, version)
                        THEN GgufErr("UnsupportedVersion", version)
                        ELSE GgufOk(version,
                                    u64_from_le_bytes(SubSeq(bytes, 9, 16)),
                                    u64_from_le_bytes(SubSeq(bytes, 17, 24)))

\* magics (0xDEADBEEF is -559038737, 0x47475546 is the magic byte-swapped),
\* versions (0x03000000 is 3 byte-swapped, -1 is 4294967295), counts and
\* lengths of the files given to validate_gguf
Magics == {GGUF_MAGIC, 0, -559038737, 1195857222, 1179993926}
Versions == {0, 1, 2, 3, 4, 259, 50331648, -1}
Counts == {U64(0, 0), U64(10, 0), U64(5, 0), U64(67305985, 0), U64(0, 1),
           U64(67305985, 134678021), U64(-1, -1)}
FileLens == {0, 4, 8, 23, 24, 32}

\* what follows the header in a file
Tensors == <<9, 8, 7, 6, 5, 4, 3, 2>>

\* create_test_gguf and its variants: the header written field by field,
\* the file cut to len bytes
GgufFile(w, len) ==
    SubSeq(u32_to_le_bytes(w.magic) \o u32_to_le_bytes(w.version)
             \o u64_to_le_bytes(w.tensor_count)
             \o u64_to_le_bytes(w.metadata_kv_count) \o Tensors, 1, len)

InitGguf ==
    /\ InitProgram /\ utf8 = Utf8Idle /\ sizing = SizingIdle /\ perm = PermIdle
    /\ compact = CompactIdle
    /\ \E w \in [magic : Magics, version : Versions, tensor_count : Counts,
                  metadata_kv_count : Counts], len \in FileLens :
          gguf = [phase |-> "file", bytes |-> GgufFile(w, len), written |-> w,
                  result |-> GgufIdle.result]

\* a call of validate_gguf on the file
ValidateGguf(opens) ==
    /\ gguf.phase = "file"
    /\ gguf' = [gguf EXCEPT !.phase = "returned",
                            !.result = validate_gguf(gguf.bytes, opens)]
    /\ UNCHANGED <<wvars, agent, chat, utf8, sizing, perm, compact>>

NextGguf == \E opens \in BOOLEAN : ValidateGguf(opens)

SpecGguf == InitGguf /\ [][NextGguf]_vars

\* ----------------------------------------------------------- compaction
\* The compressions of the conversation in ChatView::handle_send. A content
\* is a text of pre single-byte characters followed by n characters of width
\* bytes each, inside one of the code's format strings (kind); orig is the
\* number the format string prints.
Content(kind, pre, width, n, orig) ==
    [kind |-> kind, pre |-> pre, width |-> IF n = 0 THEN 1 ELSE width,
     n |-> n, orig |-> orig]
Text(pre, width, n) == Content("text", pre, width, n, 0)

\* the decimal digits of a number
Digits(k) ==
    IF k < 10 THEN 1 ELSE IF k < 100 THEN 2 ELSE IF k < 1000 THEN 3
    ELSE IF k < 10000 THEN 4 ELSE 5

\* the bytes the format string of a content adds to its text
Overhead(c) ==
    CASE c.kind = "pruned" -> 25 + Digits(c.orig) + 13
      [] c.kind = "tronque" -> 15 + Digits(c.orig) + 23
      [] c.kind = "placeholder" -> 36 + Digits(c.orig)
      [] c.kind = "notice" -> 50
      [] c.kind = "summary" -> 5
      [] c.kind = "summary_fixed" -> 5 + 36
      [] c.kind = "compressing" -> 34
      [] OTHER -> 0

\* the bytes and the characters of the text of a content
HeadBytes(c) == c.pre + c.width * c.n
HeadChars(c) == c.pre + c.n

\* String::len, in bytes
ByteLen(c) == HeadBytes(c) + Overhead(c)

\* str::is_char_boundary, for an index inside the text
is_char_boundary(c, i) ==
    \/ i <= c.pre
    \/ i <= HeadBytes(c) /\ (i - c.pre) % c.width = 0

\* &content[..i] on a boundary, inside a format string
slice_to(c, i, kind, orig) ==
    IF i <= c.pre THEN Content(kind, i, 1, 0, orig)
    ELSE Content(kind, c.pre, c.width, (i - c.pre) \div c.width, orig)

\* content.chars().take(k).collect(), inside a format string
take_chars(c, k, kind, orig) ==
    IF k <= c.pre THEN Content(kind, k, 1, 0, orig)
    ELSE Content(kind, c.pre, c.width,
                 IF k - c.pre < c.n THEN k - c.pre ELSE c.n, orig)

\* the sum of content.len() over the messages
RECURSIVE TotalBytes(_)
TotalBytes(msgs) ==
    IF msgs = <<>> THEN 0
    ELSE ByteLen(Head(msgs).content) + TotalBytes(Tail(msgs))

\* the proactive compression: every long message is cut to 1500 characters,
\* a long conversation keeps its last 4 messages, and a notice is pushed
proactive_compression(msgs) ==
    LET cut == [i \in DOMAIN msgs |->
                  IF ByteLen(msgs[i].content) > 2000
                    THEN Msg(msgs[i].role,
                             take_chars(msgs[i].content, 1500, "tronque",
                                        ByteLen(msgs[i].content)))
                    ELSE msgs[i]]
        n == Len(msgs)
        kept == IF n > 6
                  THEN <<Msg("System", Content("placeholder", 0, 1, 0, n - 4))>>
                         \o SubSeq(cut, n - 3, n)
                  ELSE cut
    IN  Append(kept, Msg("System", Content("notice", 0, 1, 0, 0)))

\* the messages the zero-cost pruning cuts
Long(msgs) ==
    {i \in DOMAIN msgs :
        msgs[i].role = "System" /\ ByteLen(msgs[i].content) > 2000}

\* the zero-cost pruning after a truncated generation: every long system
\* message is cut at byte 500; a cut inside a character panics, with the
\* messages before it already cut
zero_cost_pruning(msgs) ==
    LET bad == {i \in Long(msgs) : ~is_char_boundary(msgs[i].content, 500)}
        stop == IF bad = {} THEN Len(msgs) + 1
                ELSE CHOOSE i \in bad : \A j \in bad : i <= j
    IN  [msgs |-> [i \in DOMAIN msgs |->
                    IF i \in Long(msgs) /\ i < stop
                      THEN Msg("System",
                               slice_to(msgs[i].content, 500, "pruned",
                                        ByteLen(msgs[i].content)))
                      ELSE msgs[i]],
         panicked |-> bad # {}]

\* the messages the summary request quotes: all but the last two, without
\* the system messages
Quoted(msgs, msg_count) ==
    {i \in 1..SatSub(msg_count, 2) : msgs[i].role # "System"}

\* the summary request cuts each quoted message that is over 200 bytes at
\* byte 200
summary_request_panics(msgs, msg_count) ==
    \E i \in Quoted(msgs, msg_count) :
        /\ ByteLen(msgs[i].content) > 200
        /\ ~is_char_boundary(msgs[i].content, 200)

\* what the summary generation leaves in `summary`: the text of the model,
\* "" when the stream ends before a token, the fixed sentence when the
\* engine rejects the request
SummaryOutcomes == {"text", "empty", "rejected"}
SummaryContent(outcome) ==
    CASE outcome = "text" -> Content("summary", 300, 1, 0, 0)
      [] outcome = "empty" -> Content("summary", 0, 1, 0, 0)
      [] OTHER -> Content("summary_fixed", 0, 1, 0, 0)

\* the note pushed onto the last message before the summary is requested
WithNote(msgs) ==
    LET last == msgs[Len(msgs)].content
    IN  IF ByteLen(last) > 0 /\ last.kind \notin {"notice", "compressing"}
          THEN [msgs EXCEPT ![Len(msgs)].content =
                    [last EXCEPT !.kind = "compressing"]]
          ELSE msgs

\* the replacement of the conversation by the summary and its last message
llm_summary(msgs, outcome) ==
    LET last == msgs[Len(msgs)]
    IN  <<Msg("System", SummaryContent(outcome))>>
          \o (IF ByteLen(last.content) > 0 THEN <<last>> ELSE <<>>)
          \o <<Msg("Assistant", Text(0, 1, 0))>>

\* the messages a conversation is built from
PlainMessages ==
    {Msg("User", Text(3000, 1, 0)), Msg("Assistant", Text(100, 1, 0)),
     Msg("System", Text(3000, 1, 0))}
\* messages at a limit of a test and messages with multi-byte characters,
\* some with a character across byte 500 or byte 200
SpecialMessages ==
    {Msg("System", Text(2000, 1, 0)), Msg("System", Text(499, 2, 1000)),
     Msg("System", Text(500, 2, 1000)), Msg("User", Text(199, 3, 100)),
     Msg("Assistant", Text(0, 2, 1500))}
\* the message a generation wrote into
LastMessages ==
    {Msg("Assistant", Text(0, 1, 0)), Msg("Assistant", Text(100, 1, 0)),
     Msg("Assistant", Text(13000, 1, 0))}

\* conversations of up to max messages: a user message first, the message
\* of the generation last, at most one special message before it
Conversations(max) ==
    UNION {{<<Msg("User", Text(3000, 1, 0))>> \o mid \o <<last>> :
              mid \in {m \in [1..k -> PlainMessages \cup SpecialMessages] :
                         Cardinality({i \in 1..k : m[i] \in SpecialMessages})
                           <= 1},
              last \in LastMessages} : k \in 0..(max - 2)}

InitCompact ==
    /\ InitProgram /\ utf8 = Utf8Idle /\ sizing = SizingIdle /\ gguf = GgufIdle
    /\ perm = PermIdle
    /\ \E conv \in Conversations(MaxMsgs) :
          compact = [phase |-> "input", before |-> conv, pruned |-> <<>>,
                     msgs |-> conv, repeat |-> FALSE, summary |-> "none"]

\* the proactive compression of a conversation whose prompt is over 75% of
\* the context size
CompactProactive ==
    /\ compact.phase = "input"
    /\ compact' = [compact EXCEPT
                      !.phase = "proactive",
                      !.msgs = proactive_compression(compact.msgs)]
    /\ UNCHANGED <<wvars, agent, chat, utf8, sizing, gguf, perm>>

\* the compression after a truncated generation, from the pruning to the
\* continue or break that ends it; before keeps the conversation it started
\* from and pruned the conversation the pruning left; repeat: agent_ctx.iteration >= 3; outcome: what the summary
\* generation leaves
CompactTruncated(repeat, outcome) ==
    /\ compact.phase \in {"input", "proactive"}
    /\ LET msg_count == Len(compact.msgs)
           p == zero_cost_pruning(compact.msgs)
           new_total == TotalBytes(p.msgs)
           c == [compact EXCEPT !.before = compact.msgs, !.pruned = p.msgs,
                                !.msgs = p.msgs, !.repeat = repeat]
       IN  compact' =
             IF p.panicked THEN [c EXCEPT !.phase = "panicked_pruning"]
             ELSE IF new_total < 12000 /\ ~repeat
               THEN [c EXCEPT !.phase = "retry"]
             ELSE IF new_total < 12000
               THEN [c EXCEPT !.phase = "stopped"]
             ELSE IF ~(msg_count > 2)
               THEN [c EXCEPT !.phase = "cannot_compress"]
             ELSE IF summary_request_panics(WithNote(p.msgs), msg_count)
               THEN [c EXCEPT !.phase = "panicked_summary",
                              !.msgs = WithNote(p.msgs)]
             ELSE [c EXCEPT !.phase = "summarised", !.summary = outcome,
                            !.msgs = llm_summary(WithNote(p.msgs), outcome)]
    /\ UNCHANGED <<wvars, agent, chat, utf8, sizing, gguf, perm>>

NextCompact ==
    \/ CompactProactive
    \/ \E repeat \in BOOLEAN, outcome \in SummaryOutcomes :
         CompactTruncated(repeat, outcome)

SpecCompact == InitCompact /\ [][NextCompact]_vars

\* ------------------------------------------------- permission levels
\* the arms of the match of get_tool_permission on a literal name, in order
PermissionArms ==
    << [names |-> {"file_read", "file_list", "grep", "glob", "think",
                   "todo_write", "file_info", "file_search", "diff", "wc",
                   "tree", "process_list", "environment", "system_info",
                   "which", "git_status", "git_diff", "git_log", "git_branch",
                   "pdf_read", "skill_list", "skill_invoke",
                   "mcp_list_servers"},
        level |-> "ReadOnly"],
       [names |-> {"web_search", "code_search", "company_research",
                   "deep_research_start", "deep_research_check", "web_crawl",
                   "web_fetch", "web_download", "ai_consult"},
        level |-> "Network"],
       [names |-> {"file_write", "file_edit", "file_create", "file_delete",
                   "file_move", "file_copy", "directory_create",
                   "find_replace", "patch", "pdf_create", "pdf_add_page",
                   "pdf_merge", "skill_create", "mcp_add_server",
                   "mcp_remove_server"},
        level |-> "WriteFile"],
       [names |-> {"command"}, level |-> "ExecuteSafe"],
       [names |-> {"bash", "bash_background", "git_commit", "git_stash"},
        level |-> "ExecuteUnsafe"] >>

\* str::starts_with
starts_with(name, prefix) ==
    Len(name) >= Len(prefix) /\ SubSeq(name, 1, Len(prefix)) = prefix

\* the arms tried from arm i on, then the guard arm, then the default
RECURSIVE MatchFrom(_, _)
MatchFrom(tool_name, i) ==
    IF i > Len(PermissionArms)
      THEN IF starts_with(tool_name, "mcp_") THEN "Network" ELSE "ReadOnly"
    ELSE IF tool_name \in PermissionArms[i].names
      THEN PermissionArms[i].level
    ELSE MatchFrom(tool_name, i + 1)

\* the match with the guard arm tried before the literal names
get_tool_permission_prefix_first(tool_name) ==
    IF starts_with(tool_name, "mcp_") THEN "Network"
    ELSE MatchFrom(tool_name, 1)

\* get_tool_permission
get_tool_permission(tool_name) == MatchFrom(tool_name, 1)

\* the names of the table
TableNames == UNION {PermissionArms[i].names : i \in DOMAIN PermissionArms}

\* names that are not in the table: tools of external servers, names close
\* to the prefix or to a name of the table, and other names
OtherNames ==
    {"mcp_github_list_repos", "mcp_", "mcp_x", "mcp_bash", "mcp", "mcp-x",
     "MCP_x", "xmcp_x", " mcp_x", "mc", "m", "", "Bash", "bash ", "file",
     "file_reader", "git_push", "rm", "unknown_tool"}

InitPermission ==
    /\ InitProgram /\ utf8 = Utf8Idle /\ sizing = SizingIdle /\ gguf = GgufIdle
    /\ compact = CompactIdle
    /\ \E name \in TableNames \cup OtherNames :
          perm = [tool_name |-> name, levels |-> <<>>]

\* a call of get_tool_permission on the name
Classify ==
    /\ Len(perm.levels) < MaxCalls
    /\ perm' = [perm EXCEPT
                   !.levels = Append(@, get_tool_permission(perm.tool_name))]
    /\ UNCHANGED <<wvars, agent, chat, utf8, sizing, gguf, compact>>

NextPermission == Classify

SpecPermission == InitPermission /\ [][NextPermission]_vars

\* ------------------------------------------------------------- claims
Terminal(e) == e.kind \in {"Done", "Truncated", "Error"}

\* Token* followed by one terminal
SinkWellFormed(sink) ==
    /\ sink # <<>>
    /\ Terminal(sink[Len(sink)])
    /\ \A i \in 1..(Len(sink) - 1) : sink[i].kind = "Token"

\* the worker received the GENERATE and is done with it
Finished(id) ==
    /\ id \in DOMAIN streams
    /\ id <= lastSeq
    /\ ~(InFlight /\ cur.id = id)

\* C1: every GENERATE the worker received sends Token values and then exactly
\* one terminal value, and nothing after it (stated for a worker that did
\* not panic; the panic is C6's)
C1_OneTerminal ==
    \A id \in DOMAIN streams :
        Finished(id) /\ wpc # "panicked" => SinkWellFormed(streams[id].sink)

Rank(r) == CASE r = "ctx" -> 1 [] r = "model" -> 2 [] r = "backend" -> 3

\* C2: whenever the worker releases resources the context goes before the
\* model and the model before the backend, and a context exists only with a
\* model, a model only with the backend
C2_DropOrder ==
    /\ \A i, j \in 1..Len(drops) : i < j => Rank(drops[i]) < Rank(drops[j])
    /\ state.ctx.some => state.model.some
    /\ state.model.some => state.backend

\* C3: commands are received in submission order, one at a time, and only
\* when the previous one is finished; nothing changes the backend, the model
\* or the context while a GENERATE is in flight
C3_FifoOneAtATime ==
    [][/\ lastSeq' # lastSeq => wpc = "recv" /\ lastSeq' = lastSeq + 1
       /\ InFlight => /\ state'.backend = state.backend
                      /\ state'.model = state.model
                      /\ state'.ctx = state.ctx]_vars

\* a LOAD or an UNLOAD waits in the queue while a GENERATE is in flight
C3_Witness ==
    /\ InFlight
    /\ \E i \in 1..Len(queue) : queue[i].type \in {"LoadModel", "UnloadModel"}

TokensAfterStop(st) ==
    Cardinality({i \in (st.sink_at_stop + 1)..Len(st.sink) :
                    st.sink[i].kind = "Token"})

\* C4: a stop flag set while the GENERATE is in progress lets at most one
\* more Token through and the stream ends with Done
C4_StopEndsWithDone ==
    \A id \in DOMAIN streams :
        Finished(id) /\ streams[id].stop_in_flight =>
            /\ streams[id].sink # <<>>
            /\ streams[id].sink[Len(streams[id].sink)].kind = "Done"
            /\ TokensAfterStop(streams[id]) <= 1

Fits(r) == LeU(r.n_ctx, r.stored_n_ctx) /\ LeU(r.needed_batch, r.stored_n_batch)

C6_NeverPanics == wpc # "panicked"

LoadErrors == {"ModelValidation", "ModelLoad", "BackendNotInitialized",
               "WorkerError"}

\* C7: after a load_model call that returned an error the worker holds no
\* model and no context
C7_FailedLoadLeavesNoModel ==
    engine.lastLoad \in LoadErrors => ~state.model.some /\ ~state.ctx.some

ErrorSent ==
    \E id \in DOMAIN streams' :
        /\ id \in DOMAIN streams
        /\ Len(streams'[id].sink) > Len(streams[id].sink)
        /\ streams'[id].sink[Len(streams'[id].sink)].kind = "Error"

\* C8: while the worker runs, the recorded sizes are those the held context
\* was built with and are 0 exactly when none is held; a GENERATE that ends
\* with Error leaves the worker receiving commands, and a GENERATE whose
\* requirements fit the held context keeps it
C8_ContextBookkeeping ==
    /\ [](WorkerRuns =>
            /\ state.ctx.some => /\ state.ctx_n_ctx = state.ctx.n_ctx
                                 /\ state.ctx_n_batch = state.ctx.n_batch
            /\ state.ctx.some <=> state.ctx_n_ctx # 0
            /\ state.ctx.some <=> state.ctx_n_batch # 0)
    /\ [](reuse.valid /\ reuse.had /\ Fits(reuse) => reuse.kept)
    /\ [][ErrorSent => wpc' = "recv"]_vars

\* the GENERATE after one that ended with Error keeps the context
C8_Witness == reuse.valid /\ reuse.after_error /\ reuse.kept

\* the decision the permission path reached for the current call
DecisionOf(a) ==
    IF a.permission_result = "Pending" THEN a.decision ELSE a.permission_result

\* C9: a tool is executed only when the decision for the call is Approved;
\* on Denied or timeout it is not executed, one history entry with error
\* "Permission denied" is recorded, a system nudge and an empty assistant
\* message are appended and the loop goes to its next iteration
C9_ExecuteOnlyIfApproved ==
    [][/\ agent'.executions # agent.executions =>
             /\ agent'.executions = agent.executions + 1
             /\ DecisionOf(agent) = "Approved"
       /\ (/\ agent.pc = "resolved"
           /\ agent'.pc # "resolved"
           /\ DecisionOf(agent) \in {"Denied", "None"}) =>
             /\ agent'.executions = agent.executions
             /\ agent'.tool_history = Append(agent.tool_history,
                    [tool_name |-> agent.call.tool,
                     params |-> agent.call.params, result |-> "None",
                     error |-> "Permission denied", duration_ms |-> "0"])
             /\ agent'.messages = agent.messages
                    \o <<[role |-> "System", content |-> "refused"],
                         [role |-> "Assistant", content |-> ""]>>
             /\ agent'.pc = "loop"]_vars

\* a refused call was recorded and the loop is about to retry, no tool
\* having been executed
C9_Witness ==
    /\ agent.pc = "loop"
    /\ agent.executions = 0
    /\ agent.tool_history # <<>>
    /\ agent.tool_history[Len(agent.tool_history)].error = "Permission denied"

InternalSafeTools ==
    {"think", "todo_write", "skill_list", "skill_invoke", "skill_create"}

AutoApprovable(a) ==
    \/ a.call.tool \in InternalSafeTools
    \/ a.settings.auto_approve_all
    \/ a.call.tool \in a.settings.tool_allowlist

\* C10: a call of an internal-safe tool, or with auto-approve-all on, or of
\* an allowlisted tool is Approved without a request to the permission
\* manager; every other call is passed to the permission manager; a Pending
\* request ends with the user's Approved or Denied, or with a timeout once
\* 120 seconds have passed
C10_PermissionResolution ==
    agent.pc \in {"request", "waiting", "resolved", "executing"} =>
        /\ AutoApprovable(agent) =>
              /\ ~agent.requested
              /\ agent.permission_result = "Approved"
              /\ agent.pc \in {"resolved", "executing"}
        /\ ~AutoApprovable(agent) /\ agent.pc # "request" => agent.requested
        /\ agent.pc = "waiting" => agent.permission_result = "Pending"
        /\ agent.permission_result = "Pending" /\ agent.pc # "waiting" =>
              agent.decision \in {"Approved", "Denied", "None"}
        /\ agent.decision = "None" => agent.waited = 120
        /\ agent.decision \in {"Approved", "Denied"} => agent.waited < 120

\* a request the permission manager left pending timed out
C10_Witness ==
    agent.pc = "resolved" /\ agent.requested /\ agent.decision = "None"

\* how far a run is from its end: the iterations left, then the position in
\* the loop body (with the time left to wait for a decision), then the stop
\* flag still to be set
PcRank(a) ==
    CASE a.pc = "done" -> 0
      [] a.pc = "exit" -> 1
      [] a.pc = "loop" -> 2
      [] a.pc = "executing" -> 3
      [] a.pc = "resolved" -> 4
      [] a.pc = "waiting" ->
           5 + ((PermissionTimeoutSecs - a.waited) * 2) \div PermissionTimeoutSecs
      [] a.pc = "request" -> 8
      [] a.pc = "stream" -> 9
      [] OTHER -> 10
RunMeasure(a) ==
    2 * (10 * (a.settings.max_iterations - a.iteration) + PcRank(a))
      + (IF a.stop_signal THEN 0 ELSE 1)

\* one step of a running agent, with `last` the greatest reading of the
\* elapsed seconds at which an iteration may still proceed
RunStep(last) ==
    agent.pc \notin {"idle", "done"} =>
      /\ agent'.iteration <= agent.settings.max_iterations
      /\ RunMeasure(agent') < RunMeasure(agent)
      /\ IF agent.pc = "loop" /\ agent'.stop_signal = agent.stop_signal
           THEN \/ /\ agent'.pc = "exit"
                   /\ agent'.iteration \in {agent.iteration, agent.iteration + 1}
                \/ /\ agent'.pc # "exit"
                   /\ agent'.iteration = agent.iteration + 1
                   /\ agent'.elapsed <= last
           ELSE agent'.iteration = agent.iteration

C12_AtMostTwoCompactions ==
    /\ Len(agent.compactions) <= 2
    /\ \A i \in DOMAIN agent.compactions :
         agent.compactions[i] = "proactive" => i = 1

\* a truncated reply after a proactive and a post-truncation compaction: the
\* third compaction was refused
C12_Witness ==
    /\ agent.reason = "compaction_limit"
    /\ agent.compactions = <<"proactive", "truncation">>

\* the ends of a run that are neither a final answer nor a cancellation
FailureReasons ==
    {"iterations", "time", "stuck", "gen_errors", "compaction_limit",
     "pruned", "cannot_compress", "stream_errors", "not_found"}

\* the assistant texts of the loop that tell the user why nothing more comes
Explanations ==
    {"stuck", "late", "gen_error", "stream_error", "not_found", "garbage"}

\* C13: a run that ended for a reason other than a final answer or a
\* cancellation has an assistant message in the conversation that explains
\* the situation
C13_FailuresExplained ==
    agent.pc = "done" /\ agent.reason \in FailureReasons =>
      \E i \in DOMAIN agent.messages :
         /\ agent.messages[i].role = "Assistant"
         /\ agent.messages[i].content \in Explanations

\* two entries of the tool history for the same (tool name, params)
SameCall(e1, e2) == e1.tool_name = e2.tool_name /\ e1.params = e2.params

LastThreeIdentical(h) ==
    /\ Len(h) >= 3
    /\ \A i \in (Len(h) - 2)..Len(h) : SameCall(h[i], h[Len(h)])

\* the failed attempts of the call of entry e
FailedAttempts(h, e) ==
    Cardinality({i \in DOMAIN h : SameCall(h[i], e) /\ h[i].error # "None"})

\* C14: a run that was not cancelled and whose last three tool invocations
\* are identical, or whose consecutive_errors reached 3, has ended at the
\* stuck guard with the message about repeated actions, and no failing call
\* was attempted more than three times
C14_StuckEndsRun ==
    /\ (/\ agent.pc = "done"
        /\ agent.reason # "stop"
        /\ \/ LastThreeIdentical(agent.tool_history)
           \/ agent.consecutive_errors >= 3)
         => /\ agent.reason = "stuck"
            /\ \E i \in DOMAIN agent.messages :
                  agent.messages[i] = Msg("Assistant", "stuck")
    /\ \A i \in DOMAIN agent.tool_history :
         FailedAttempts(agent.tool_history, agent.tool_history[i]) <= 3

\* the tasks of the chat view that have not finished
ActiveTasks == {t \in DOMAIN chat.tasks : chat.tasks[t].pc # "done"}

\* C15: at most one task is active at any time, and the tasks write the
\* message list one after the other: no task writes once the send of a later
\* run has been handled
C15_OneActiveRun ==
    /\ Cardinality(ActiveTasks) <= 1
    /\ \A i, j \in DOMAIN chat.writes :
         i < j /\ chat.writes[i] # 0 /\ chat.writes[j] # 0
           => chat.writes[i] <= chat.writes[j]

\* C16: the texts sent, put together, are the text the token bytes spell:
\* at any time the bytes sent, those held back and those to come make up S
\* in order; every text sent ends where a character of S ends, so each is
\* valid UTF-8 and no character is split; and at the end all of S was sent
C16_Reassembly ==
    /\ Flatten(utf8.emitted) \o utf8.buffer \o Flatten(utf8.chunks) = utf8.S
    /\ \A i \in 1..Len(utf8.emitted) :
         /\ utf8.emitted[i] # <<>>
         /\ Len(Flatten(SubSeq(utf8.emitted, 1, i))) \in utf8.boundaries
    /\ utf8.done => Flatten(utf8.emitted) = utf8.S

\* a text of several characters, cut inside a character, sent in two texts
\* or more
C16_Witness ==
    /\ utf8.done
    /\ utf8.cuts \ utf8.boundaries # {}
    /\ Len(utf8.emitted) >= 2
    /\ Len(utf8.S) >= 5

\* the integer a u32 of the coding stands for, cut at 2^31 - 1
Capped(a) == IF a < 0 THEN I32Max ELSE a

\* a + b, cut at 2^31 - 1
CappedSum(a, b) ==
    IF Capped(a) > I32Max - Capped(b) THEN I32Max ELSE Capped(a) + Capped(b)

Least(S) == CHOOSE x \in S : \A y \in S : x <= y
Most(S) == CHOOSE x \in S : \A y \in S : x >= y

\* the size the rule gives; the train lengths are below 2^31, so that
\* effective_max and all that is clamped to it are below 2^31 too
RuleSize(prompt_len, max_tokens, max_context_size, model_max) ==
    LET effective_max == Least({Capped(max_context_size), Capped(model_max)})
        needed == Least({Most({CappedSum(prompt_len, max_tokens),
                               CappedSum(prompt_len, 256)}),
                         effective_max})
        fit == {s \in {2048, 4096, 8192, 16384, 32768, 65536, 131072} :
                  s >= needed /\ s <= effective_max}
    IN  IF fit # {} THEN Least(fit) ELSE Least({needed, effective_max})

\* C17: every sizing ends with the size of the rule: the least standard size
\* between needed and effective_max, needed itself when there is none, and
\* never more than effective_max
C17_ContextSizeRule ==
    sizing.phase \in {"done", "panicked"} =>
      /\ sizing.phase = "done"
      /\ sizing.n_ctx = RuleSize(sizing.prompt_len, sizing.max_tokens,
                                 sizing.max_context_size, sizing.model_max)
      /\ sizing.n_ctx <= Least({Capped(sizing.max_context_size),
                                sizing.model_max})

\* C18: a load_model that got past the engine's own checks fails with
\* ModelLoad when the file is absent, and with ModelValidation only when the
\* file can be read and fails the header checks
C18_LoadErrorKinds ==
    /\ (/\ engine.lastFile = "missing"
        /\ engine.lastLoad \notin {"none", "BackendNotInitialized",
                                   "WorkerError"})
         => engine.lastLoad = "ModelLoad"
    /\ engine.lastLoad = "ModelValidation" => engine.lastFile = "badmagic"

\* the worker has handled INIT, its backend initialisation failed, and it is
\* still receiving commands
BackendInitFailed == lastSeq >= 1 /\ ~state.backend /\ wpc = "recv"

\* a step in which a load_model call returns the worker's reply
LoadReplyStep == engine.pc = "waitLoad" /\ engine'.pc = "ready"

\* a step in which a generate_stream_messages call returns
GenerateStep ==
    /\ engine.pc = "ready" /\ engine'.pc = "ready"
    /\ engine'.lastGen # "none"
    /\ engine'.lastGen # engine.lastGen \/ nextSeq' # nextSeq

\* C19: once backend initialisation has failed in the worker, the worker keeps
\* serving commands, and every later LOAD and every later GENERATE fails with
\* the error BackendNotInitialized
C19_BackendFailureReported ==
    [][BackendInitFailed =>
          /\ wpc' # "recv" => engine'.pc = "dropped"
          /\ LoadReplyStep => engine'.lastLoad = "BackendNotInitialized"
          /\ GenerateStep => engine'.lastGen = "BackendNotInitialized"]_vars

\* C20: validate_gguf returns FileTooSmall for a file shorter than 24 bytes;
\* for a file of at least 24 bytes it returns InvalidMagic when the first 4
\* bytes are not the GGUF magic, UnsupportedVersion when the magic is right
\* and the version is neither 2 nor 3, and otherwise exactly the version,
\* tensor count and metadata-KV count written little-endian in bytes 4 to 24
C20_HeaderDecoded ==
    gguf.phase = "returned" /\ gguf.result.kind # "FileOpen" =>
        LET w == gguf.written
            r == gguf.result
        IN  IF Len(gguf.bytes) < 24 THEN r.kind = "FileTooSmall"
            ELSE IF w.magic # GGUF_MAGIC THEN r.kind = "InvalidMagic"
            ELSE IF w.version \notin {2, 3} THEN r.kind = "UnsupportedVersion"
            ELSE /\ r.kind = "Ok"
                 /\ r.version = w.version
                 /\ r.tensor_count = w.tensor_count
                 /\ r.metadata_kv_count = w.metadata_kv_count

\* a version 3 header with counts that use all their bytes has been decoded
C20_Witness ==
    /\ gguf.phase = "returned" /\ gguf.result.kind = "Ok"
    /\ gguf.result.version = 3
    /\ gguf.result.tensor_count = U64(67305985, 134678021)
    /\ gguf.result.metadata_kv_count = U64(-1, -1)
    /\ Len(gguf.bytes) > 24

\* the level the table lists for a name of the table
Listed(name) ==
    {PermissionArms[i].level :
        i \in {j \in DOMAIN PermissionArms : name \in PermissionArms[j].names}}

\* C21: get_tool_permission depends on the tool name only: every call on a
\* name returns the same level, which is the level the table lists for a
\* name of the table, Network for any other name that begins with "mcp_",
\* and ReadOnly for every remaining name
C21_PermissionOfName ==
    \A i \in DOMAIN perm.levels :
        /\ perm.levels[i] = perm.levels[1]
        /\ IF perm.tool_name \in TableNames
              THEN Listed(perm.tool_name) = {perm.levels[i]}
            ELSE IF starts_with(perm.tool_name, "mcp_")
              THEN perm.levels[i] = "Network"
            ELSE perm.levels[i] = "ReadOnly"

\* a name of the table that begins with the prefix of external servers has
\* been classified twice, and not as Network
C21_Witness ==
    /\ Len(perm.levels) = 2
    /\ perm.tool_name = "mcp_add_server"
    /\ perm.levels[2] = "WriteFile"

\* C22: whenever the agent loop is streaming a generation, the last message
\* of the conversation, the one the streamed text is appended to, is an
\* assistant message
C22_StreamsIntoAssistant ==
    agent.pc = "stream" =>
        /\ agent.messages # <<>>
        /\ agent.messages[Len(agent.messages)].role = "Assistant"

\* only init, load_model and unload_model have been called, the last call
\* has returned and the worker has processed every queued command
LoadsOnlyAndSettled ==
    /\ DOMAIN streams = {}
    /\ engine.pc = "ready"
    /\ queue = <<>>
    /\ wpc \in {"none", "recv"}

\* C23: after any sequence of init, load_model and unload_model calls,
\* is_model_loaded() is true exactly when the worker, once it has processed
\* all queued commands, holds a model
C23_LoadedFlagMatchesWorker ==
    LoadsOnlyAndSettled => (engine.model_loaded <=> state.model.some)

\* the number of failed tool executions at the end of the history
FailedInARow(h) ==
    CHOOSE k \in 0..Len(h) :
        /\ \A i \in (Len(h) - k + 1)..Len(h) : h[i].error # "None"
        /\ k = Len(h) \/ h[Len(h) - k].error = "None"

\* a tool execution has just failed: its error replaced the text of the
\* assistant message, a system message and an empty assistant message follow
JustFailed ==
    /\ agent.pc = "loop"
    /\ Len(agent.messages) >= 3
    /\ agent.messages[Len(agent.messages) - 2].content = "tool_error"

\* C24: of the tool executions that fail in a row within a run, the first
\* three append a reflection prompt and the fourth appends the "too many
\* errors" directive
C24_FourthFailureIsFinal ==
    JustFailed =>
        agent.messages[Len(agent.messages) - 1] =
            Msg("System", IF FailedInARow(agent.tool_history) < 4
                            THEN "reflect" ELSE "too_many")

\* the format reminder was appended after the assistant message i - 1
FormatRetryAt(i) ==
    /\ i \in DOMAIN agent.messages
    /\ agent.messages[i] = Msg("System", "format")

\* C25: at most two malformed tool calls in a row are answered with the
\* format reminder and a retry; a third malformed output in a row is the
\* final answer
C25_AtMostTwoFormatRetries ==
    \A i \in DOMAIN agent.messages :
        ~(FormatRetryAt(i) /\ FormatRetryAt(i + 2) /\ FormatRetryAt(i + 4))

\* C26: once the stop flag is set during a run, the run executes no further
\* tool and raises no further permission request
C26_NoToolAfterStop ==
    [][agent.stop_signal /\ agent.pc \notin {"idle", "done"} =>
          /\ agent'.executions = agent.executions
          /\ agent'.requested => agent.requested]_vars

\* the task t goes through the head of its loop into another iteration body,
\* which generates
StartsGeneration(t) ==
    /\ t \in DOMAIN chat.tasks
    /\ chat'.tasks[t].iteration > chat.tasks[t].iteration
    /\ chat'.tasks[t].pc = "loop"

\* C27: a run during which the user pressed stop starts no other generation,
\* also when the user sends a new message right after the stop
C27_StopIsNotLost ==
    [][\A t \in DOMAIN chat.tasks :
          chat.tasks[t].stopped => ~StartsGeneration(t)]_vars

\* the tokens of the prompt chunk the prefill loop decodes next
ChunkLen(c) ==
    IF c.prompt_len - c.chunk * c.batch_size < c.batch_size
      THEN c.prompt_len - c.chunk * c.batch_size
      ELSE c.batch_size

C29_PromptAndBudgetFit ==
    InFlight => cur.prompt_len + cur.max_tokens <= state.ctx.n_ctx

\* a step in which a stream ends with Error, shown in the assistant message
StreamErrorStep ==
    /\ agent.pc = "stream"
    /\ Len(agent'.messages) >= Len(agent.messages)
    /\ agent'.messages[Len(agent.messages)].content = "stream_error"

\* a step in which the engine rejects the request of a generation
RejectedStep ==
    /\ agent.pc = "loop"
    /\ Len(agent'.messages) = Len(agent.messages) + 1
    /\ agent'.messages[Len(agent'.messages)].content = "gen_error"

\* C30: a generation that ends with Error, or whose request the engine
\* rejects, increments consecutive_errors; below 3 the loop appends a system
\* nudge and a fresh empty assistant message and retries, at 3 the run stops
C30_ErrorsRetriedThenStop ==
    [][StreamErrorStep \/ RejectedStep =>
          /\ agent'.consecutive_errors = agent.consecutive_errors + 1
          /\ IF agent'.consecutive_errors < 3
                THEN /\ agent'.pc = "loop"
                     /\ SubSeq(agent'.messages, Len(agent'.messages) - 1,
                               Len(agent'.messages))
                          = <<Msg("System", "retry"), Msg("Assistant", "")>>
                ELSE agent'.pc = "exit"]_vars

\* a step in which a tool call returns its result
ToolSucceeds ==
    /\ agent.pc = "executing"
    /\ Len(agent'.tool_history) = Len(agent.tool_history) + 1
    /\ agent'.tool_history[Len(agent'.tool_history)].result = "Some"

\* C31: after a tool executes successfully the loop appends an assistant
\* summary, then a system message with the formatted tool result, then a
\* fresh empty assistant message, and the next iteration starts with
\* consecutive_errors = 0
C31_ToolSuccessMessages ==
    [][ToolSucceeds =>
          /\ agent'.messages = agent.messages
                \o <<Msg("Assistant", "tool_ok"), Msg("System", "tool_result"),
                     Msg("Assistant", "")>>
          /\ agent'.pc = "loop"
          /\ agent'.consecutive_errors = 0]_vars

\* a second tool success of a run, after a failed call in between
C31_Witness ==
    /\ agent.pc = "loop"
    /\ Len(agent.tool_history) = 3
    /\ agent.tool_history[1].result = "Some"
    /\ agent.tool_history[2].error = "Some"
    /\ agent.tool_history[3].result = "Some"
    /\ agent.messages[Len(agent.messages) - 1] = Msg("System", "tool_result")

\* the tool history only grows, by at most one entry a step
HistoryAppendOnly ==
    /\ Len(agent'.tool_history) \in {Len(agent.tool_history),
                                     Len(agent.tool_history) + 1}
    /\ SubSeq(agent'.tool_history, 1, Len(agent.tool_history))
         = agent.tool_history

\* a step in which the call of a tool returns or times out
ExecutionEnds == agent.pc = "executing" /\ agent'.pc # "executing"

\* a step in which the loop acts on a refusal or on a decision that never
\* came
DenialHandled ==
    /\ agent.pc = "resolved" /\ agent'.pc # "resolved"
    /\ \/ agent.permission_result = "Denied"
       \/ agent.decision \in {"Denied", "None"}

\* C32: every tool execution (success, failure, timeout) and every permission
\* denial or timeout appends exactly one entry, for that call, to the tool
\* history of the run; no other step adds one, and entries in the history
\* are never changed or removed
C32_HistoryAppendOnly ==
    [][/\ HistoryAppendOnly
       /\ (Len(agent'.tool_history) = Len(agent.tool_history) + 1)
            <=> (ExecutionEnds \/ DenialHandled)
       /\ ExecutionEnds \/ DenialHandled =>
            LET e == agent'.tool_history[Len(agent'.tool_history)]
            IN  /\ e.tool_name = agent.call.tool
                /\ e.params = agent.call.params
                /\ DenialHandled <=> e.error = "Permission denied"]_vars

\* a run that recorded a refusal, then the same call succeeding, then the
\* same call failing
C32_Witness ==
    /\ Len(agent.tool_history) = 3
    /\ agent.tool_history[1].error = "Permission denied"
    /\ agent.tool_history[2].result = "Some"
    /\ agent.tool_history[3].error = "Some"
    /\ \A i \in 1..3 : agent.tool_history[i].tool_name = "bash"

\* the pruning the claim describes, as a relation between a conversation and
\* what is left of it: a long conversation is its last 4 messages behind a
\* placeholder, a long system message is a cut of at most 500 characters
\* that prints the original length, every other message is as it was
PrunedAsSpecified(before, after) ==
    LET n == Len(before)
        gone == IF n > 6 THEN n - 4 ELSE 0
    IN  /\ Len(after) = IF n > 6 THEN 5 ELSE n
        /\ n > 6 => /\ after[1].role = "System"
                    /\ after[1].content.kind = "placeholder"
        /\ \A i \in (gone + 1)..n :
              LET b == before[i]
                  a == after[i - n + Len(after)]
              IN  /\ a.role = b.role
                  /\ IF b.role = "System" /\ ByteLen(b.content) > 2000
                        THEN /\ a.content.kind \in {"pruned", "tronque"}
                             /\ HeadChars(a.content) <= 500
                             /\ a.content.orig = ByteLen(b.content)
                        ELSE a.content = b.content

\* the phases in which the pruning after a truncated generation ran to its
\* end
PrunedPhases ==
    {"retry", "stopped", "cannot_compress", "summarised", "panicked_summary"}

\* C33: tier-1 pruning, proactive or after a truncated generation, changes
\* only system messages over 2000 characters (cut to about 500 characters
\* plus a marker with the original length) and replaces all but the last 4
\* messages of a conversation of more than 6 by one placeholder; the user
\* and assistant messages that are kept are unchanged
C33_Tier1Pruning ==
    /\ compact.phase = "proactive" =>
          PrunedAsSpecified(compact.before,
                            SubSeq(compact.msgs, 1, Len(compact.msgs) - 1))
    /\ compact.phase \in PrunedPhases =>
          PrunedAsSpecified(compact.before, compact.pruned)

\* C34: after a truncated generation whose pruning brings the conversation
\* under 12000 characters, a first attempt skips the summary and retries the
\* generation, a repeat attempt runs the summary, and the run is not ended
C34_PruningEnoughRetries ==
    compact.phase \in PrunedPhases /\ TotalBytes(compact.pruned) < 12000 =>
        /\ compact.phase # "stopped"
        /\ IF compact.repeat
              THEN compact.phase \in {"summarised", "panicked_summary"}
              ELSE compact.phase = "retry"

\* C35: when the summary generation fails, is rejected by the engine or
\* yields no text, the messages stay as the pruning (and the note on the last
\* message) left them: no empty or placeholder summary replaces them
C35_FailedSummaryKeepsMessages ==
    compact.phase = "summarised" /\ compact.summary # "text" =>
        compact.msgs \in {compact.pruned, WithNote(compact.pruned)}

\* a step in which the drain loop replaces the text by the garbage warning
GarbageStep ==
    /\ agent.pc = "stream" /\ agent'.pc # "stream"
    /\ Len(agent'.messages) = Len(agent.messages)
    /\ agent'.messages[Len(agent'.messages)].content = "garbage"

\* C36: when the streamed text is classified as garbage the message becomes
\* the short explanation, no tool call is extracted or executed from it, and
\* the run ends in that iteration
C36_GarbageEndsRun ==
    [][GarbageStep =>
          /\ agent'.pc = "exit"
          /\ agent'.call = NoCall
          /\ agent'.executions = agent.executions]_vars

\* a step in which run_inference sends its completion signal
Completes == wpc = "finish" /\ wpc' = "recv"

\* the sampling loop ran through the whole clamped budget, met no end marker,
\* and the stop flag is not set
BudgetUsedUp ==
    /\ cur.tokens_generated = cur.max_tokens
    /\ ~cur.hit_eos
    /\ ~streams[cur.id].stop

\* C37: the consumer receives Truncated exactly when sampling used up the
\* whole clamped budget with no end marker and no stop flag; the value
\* carries the tokens generated and the clamped budget, generated is at most
\* the limit in every Truncated value and equals it in every one that
\* reaches a connected receiver, and nothing follows a Truncated value
C37_TruncatedMeansBudgetUsedUp ==
    [][/\ Completes =>
            LET sink == streams'[cur.id].sink
                last == sink[Len(sink)]
            IN  /\ (last.kind = "Truncated" /\ last.delivered)
                      <=> (BudgetUsedUp /\ streams[cur.id].rx)
                /\ last.kind = "Truncated" =>
                      /\ last.generated = cur.tokens_generated
                      /\ last.limit = cur.max_tokens
       /\ \A id \in DOMAIN streams' :
            \A i \in DOMAIN streams'[id].sink :
               LET e == streams'[id].sink[i]
               IN  e.kind = "Truncated" =>
                     /\ LeU(e.generated, e.limit)
                     /\ e.delivered => e.generated = e.limit
                     /\ i = Len(streams'[id].sink)]_vars

\* a consumer received tokens and then Truncated with the whole budget
C37_Witness ==
    \E id \in DOMAIN streams :
        LET sink == streams[id].sink
        IN  /\ Len(sink) >= 2
            /\ sink[Len(sink)].kind = "Truncated"
            /\ sink[Len(sink)].delivered
            /\ sink[Len(sink)].generated = 2
            /\ sink[1].kind = "Token"

\* C38: when a run has finished, the conversation holds no empty assistant
\* message, whatever path ended the run
C38_NoEmptyAssistantLeft ==
    agent.pc = "done" =>
        \A i \in DOMAIN agent.messages :
            agent.messages[i] # Msg("Assistant", "")

\* nothing is handed to the worker in this step
NothingEnqueued ==
    queue' = queue /\ nextSeq' = nextSeq /\ streams' = streams

\* C39: generate_stream_messages returns BackendNotInitialized on an engine
\* that was never initialised and NoModelLoaded on an initialised engine
\* whose model flag is false, and enqueues nothing in either case; an engine
\* on which init was never called is neither initialised nor loaded;
\* unload_model can be called in every state of a live engine, and
\* is_model_loaded() is false after it
C39_EngineGuards ==
    [][/\ GenerateStep /\ ~engine.initialized =>
            engine'.lastGen = "BackendNotInitialized" /\ NothingEnqueued
       /\ GenerateStep /\ engine.initialized /\ ~engine.model_loaded =>
            engine'.lastGen = "NoModelLoaded" /\ NothingEnqueued
       /\ wpc = "none" => ~engine.initialized /\ ~engine.model_loaded
       /\ engine.pc = "ready"
            /\ (engine.command_tx /\ ~WorkerDead => CanSubmit)
            => ENABLED EngineUnload
       /\ EngineUnload => ~engine'.model_loaded]_vars

\* generate was refused for want of a model after a model had been loaded
\* and unloaded
C39_Witness ==
    /\ engine.lastGen = "NoModelLoaded"
    /\ engine.initialized
    /\ state.backend
    /\ lastSeq >= 3
    /\ queue = <<>>

\* C40: compaction never aborts the run: every cut of a message content made
\* by the pruning and by the summary request falls on a character boundary,
\* for contents that mix single-byte and multi-byte characters
C40_CutsOnBoundaries ==
    compact.phase \notin {"panicked_pruning", "panicked_summary"}

====
